---- MODULE Spec2Model ----
(***************************************************************************)
(* Model of the TFTP connection engine of jonasjelonek/tftp:               *)
(*   src/src/tftp/mod.rs      TftpConnection, send_file, receive_file      *)
(*   src/src/tftp/packet/mod.rs   packet views over byte buffers           *)
(*   src/src/client.rs        TftpClient::get / TftpClient::put            *)
(* Datagrams are sequences of bytes (0..255).  The network and the file   *)
(* system are the environment: every socket receive returns one of a      *)
(* bounded set of outcomes (timeout, I/O error, a datagram from some      *)
(* source address).                                                        *)
(***************************************************************************)
EXTENDS Integers, Sequences, FiniteSets, TLC

(* ------------------------------ bounds -------------------------------- *)
\* Largest number of full blocks in a file handed to send_file.
MaxFullBlocks == 2
\* Largest number of DATA blocks the environment lets receive_file accept.
MaxRecvBlocks == 3

(* ------------------------- program constants -------------------------- *)
TFTP_LISTEN_PORT == 69
DEFAULT_BLOCK_SIZE == 512
DEFAULT_TIMEOUT_SECS == 5
DEFAULT_RETRANSMIT_ATTEMPTS == 5
OPCODE_RRQ == 1
OPCODE_WRQ == 2
OPCODE_DATA == 3
OPCODE_ACK == 4
OPCODE_ERROR == 5
OPCODE_OACK == 6
ERR_FILENOTFOUND == 1
ERR_ACCESSVIOLATION == 2
ERR_STORAGEERROR == 3
ERR_ILLEGALOPERATION == 4
ERR_UNKNOWNTID == 5
ERR_INVALIDOPTION == 8

(* ------------------------------ integers ------------------------------ *)
\* A value stored in a u16.
U16(x) == x % 65536

\* u16::to_be_bytes
to_be_bytes(x) == << U16(x) \div 256, U16(x) % 256 >>

\* u16::from_be_bytes
from_be_bytes(hi, lo) == hi * 256 + lo

Min(a, b) == IF a < b THEN a ELSE b

\* A run of n bytes of value b.
Fill(n, b) == [i \in 1..n |-> b]

\* "NetAscii mode not supported" as bytes.
NetAsciiMsg ==
  << 78, 101, 116, 65, 115, 99, 105, 105, 32, 109, 111, 100, 101, 32,
     110, 111, 116, 32, 115, 117, 112, 112, 111, 114, 116, 101, 100 >>

(* ----------------------------- addresses ------------------------------ *)
NoAddr == [ip |-> "none", port |-> 0]
\* The address a client sends its request to.
ServerAddr == [ip |-> "server", port |-> TFTP_LISTEN_PORT]
\* The address the peer of a transfer sends from (its TID).
PeerTid == [ip |-> "server", port |-> 50001]
\* Same host as the peer, another port; and another host.
StrayPort == [ip |-> "server", port |-> 50002]
StrayHost == [ip |-> "other", port |-> 50001]

(* ------------------------------ packets ------------------------------- *)
\* Opcode of a datagram: u16::from_be_bytes([buf[0], buf[1]]).
Opcode(buf) == from_be_bytes(buf[1], buf[2])

\* TftpPacket::try_from_buf: classify a datagram by opcode, with the
\* per-kind check_from_slice length test.  ERROR (5) has no arm.
try_from_buf(buf) ==
  LET op == Opcode(buf)
      eof == [ok |-> FALSE, err |-> "UnexpectedEof", kind |-> "none"]
  IN  IF op \in {OPCODE_RRQ, OPCODE_WRQ}
        THEN IF Len(buf) < 6 THEN eof
             ELSE [ok |-> TRUE, err |-> "none", kind |-> "Req"]
      ELSE IF op = OPCODE_ACK
        THEN IF Len(buf) < 4 THEN eof
             ELSE [ok |-> TRUE, err |-> "none", kind |-> "Ack"]
      ELSE IF op = OPCODE_OACK
        THEN IF Len(buf) < 6 THEN eof
             ELSE [ok |-> TRUE, err |-> "none", kind |-> "OAck"]
      ELSE IF op = OPCODE_DATA
        THEN IF Len(buf) < 4 THEN eof
             ELSE [ok |-> TRUE, err |-> "none", kind |-> "Data"]
      ELSE [ok |-> FALSE, err |-> "InvalidOpcode", kind |-> "none"]

\* TftpData::blocknum / TftpAck::blocknum / MutableTftpData::blocknum
pkt_blocknum(buf) == from_be_bytes(buf[3], buf[4])

\* TftpData::data
pkt_data(buf) == SubSeq(buf, 5, Len(buf))

\* TftpData::data_len
pkt_data_len(buf) == Len(buf) - 4

\* MutableTftpAck::new
MutableTftpAck_new(b) == to_be_bytes(OPCODE_ACK) \o to_be_bytes(b)

\* Length of the stack buffer send_error builds the ERROR packet in.
ERR_BUF_LEN == 64

\* utils::copy: copies min(src.len(), dst.len()) elements.
copy_len(src_len, dst_len) == Min(src_len, dst_len)

\* TftpErrorBuilder::build over the caller's buffer: opcode, code, the
\* message, a NUL; the packet is a view of the whole buffer.
TftpErrorBuilder_build(code, msg) ==
  LET copied == copy_len(Len(msg), ERR_BUF_LEN - 4)
      head   == to_be_bytes(OPCODE_ERROR) \o to_be_bytes(code)
                  \o SubSeq(msg, 1, copied)
      body   == IF Len(head) = ERR_BUF_LEN
                  THEN SubSeq(head, 1, ERR_BUF_LEN - 1) \o << 0 >>
                  ELSE head
  IN  body \o Fill(ERR_BUF_LEN - Len(body), 0)

(* ----------------------- the socket's environment --------------------- *)
\* What one UdpSocket::recv_from call can return.
RxTimeout == [kind |-> "timeout", src |-> NoAddr, bytes |-> << >>]
RxIoError == [kind |-> "ioerr", src |-> NoAddr, bytes |-> << >>]
RxDgram(src, bytes) == [kind |-> "dgram", src |-> src, bytes |-> bytes]

\* recv_from copies at most buf.len() bytes of the datagram.
Truncate(bytes, buf_len) == SubSeq(bytes, 1, Min(Len(bytes), buf_len))

\* TftpConnection::receive_packet_from for the receive outcome r.
receive_packet_from(buf_len, expect, r) ==
  IF r.kind = "timeout"
    THEN [ok |-> FALSE, err |-> "Timeout", pkt |-> << >>, src |-> NoAddr]
  ELSE IF r.kind = "ioerr"
    THEN [ok |-> FALSE, err |-> "LowerLayer", pkt |-> << >>, src |-> NoAddr]
  ELSE LET buf == Truncate(r.bytes, buf_len)
           p   == try_from_buf(buf)
       IN  IF ~p.ok
             THEN [ok |-> FALSE, err |-> "InvalidPacket", pkt |-> << >>,
                   src |-> NoAddr]
           ELSE IF expect # "any" /\ p.kind # expect
             THEN [ok |-> FALSE, err |-> "UnexpectedPacketKind",
                   pkt |-> << >>, src |-> NoAddr]
           ELSE [ok |-> TRUE, err |-> "none", pkt |-> buf, src |-> r.src]

\* TftpConnection::receive_packet: receive_packet_from, then the check of
\* the source against the connected peer.
receive_packet(buf_len, expect, r, peer_addr) ==
  LET recv == receive_packet_from(buf_len, expect, r)
  IN  IF ~recv.ok THEN recv
      ELSE IF peer_addr # NoAddr /\ peer_addr # recv.src
        THEN [ok |-> FALSE, err |-> "UnknownTid", pkt |-> << >>,
              src |-> NoAddr]
      ELSE recv

(* ------------------------------ options ------------------------------- *)
\* ASCII of the identifiers in consts.
OPT_BLOCKSIZE_IDENT == << 98, 108, 107, 115, 105, 122, 101 >>
OPT_TIMEOUT_IDENT == << 116, 105, 109, 101, 111, 117, 116 >>
OPT_TRANSFERSIZE_IDENT == << 116, 115, 105, 122, 101 >>
TFTP_XFER_MODE_OCTET == << 111, 99, 116, 101, 116 >>

\* Integer::to_string: the decimal digits of n.
RECURSIVE to_string(_)
to_string(n) ==
  IF n < 10 THEN << 48 + n >>
  ELSE to_string(n \div 10) \o << 48 + (n % 10) >>

\* Value of a run of decimal digits; -1 if a byte is no digit.
RECURSIVE digits_value(_, _)
digits_value(str, acc) ==
  IF str = << >> THEN acc
  ELSE IF Head(str) < 48 \/ Head(str) > 57 THEN -1
  ELSE digits_value(Tail(str), acc * 10 + (Head(str) - 48))

\* A run of digits without its leading zeros.
RECURSIVE strip_zeros(_)
strip_zeros(str) ==
  IF str # << >> /\ Head(str) = 48 THEN strip_zeros(Tail(str)) ELSE str

\* a <= b for runs of digits of the same length.
RECURSIVE digits_leq(_, _)
digits_leq(a, b) ==
  IF a = << >> THEN TRUE
  ELSE IF Head(a) # Head(b) THEN Head(a) < Head(b)
  ELSE digits_leq(Tail(a), Tail(b))

all_digits(str) == \A i \in 1..Len(str) : str[i] >= 48 /\ str[i] <= 57

\* Decimal digits of the largest value of u8, u16, u32.
U8_MAX == << 50, 53, 53 >>
U16_MAX == << 54, 53, 53, 51, 53 >>
U32_MAX == << 52, 50, 57, 52, 57, 54, 55, 50, 57, 53 >>

\* uN::from_str_radix(val, 10) for the unsigned type with maximum max: an
\* optional '+', then at least one digit, the value within the type.
\* (The value is a TLC integer: values from 2^31 on are not evaluated.)
from_str_radix(val, max) ==
  LET body == IF val # << >> /\ Head(val) = 43 THEN Tail(val) ELSE val
      sig  == strip_zeros(body)
      fits == \/ Len(sig) < Len(max)
              \/ Len(sig) = Len(max) /\ digits_leq(sig, max)
  IN  IF body = << >> \/ ~all_digits(body) \/ ~fits
        THEN [ok |-> FALSE, val |-> 0]
        ELSE [ok |-> TRUE, val |-> digits_value(sig, 0)]

\* TftpOption::as_str_tuple, written as `key NUL value NUL`.
option_bytes(opt) ==
  LET key == IF opt.kind = "Blocksize" THEN OPT_BLOCKSIZE_IDENT
             ELSE IF opt.kind = "Timeout" THEN OPT_TIMEOUT_IDENT
             ELSE OPT_TRANSFERSIZE_IDENT
  IN  key \o << 0 >> \o to_string(opt.val) \o << 0 >>

RECURSIVE options_bytes(_)
options_bytes(opts) ==
  IF opts = << >> THEN << >>
  ELSE option_bytes(Head(opts)) \o options_bytes(Tail(opts))

\* Length of the buffer the builders allocate.
BUILDER_BUF_LEN == 64

\* TftpReqBuilder::build into its own buffer: opcode, filename, mode and
\* the options, each write cut at the end of the buffer.
TftpReqBuilder_build(kind, filename, opts) ==
  Truncate(to_be_bytes(kind) \o filename \o << 0 >>
             \o TFTP_XFER_MODE_OCTET \o << 0 >> \o options_bytes(opts),
           BUILDER_BUF_LEN)

\* TftpOAckBuilder::build into its own buffer.
TftpOAckBuilder_build(opts) ==
  Truncate(to_be_bytes(OPCODE_OACK) \o options_bytes(opts), BUILDER_BUF_LEN)

\* slice::split(|e| *e == 0): the pieces between NUL bytes.
RECURSIVE split_nul(_, _)
split_nul(bytes, piece) ==
  IF bytes = << >> THEN << piece >>
  ELSE IF Head(bytes) = 0 THEN << piece >> \o split_nul(Tail(bytes), << >>)
  ELSE split_nul(Tail(bytes), Append(piece, Head(bytes)))

\* std::str::from_utf8 on the bytes the environment sends: ASCII passes.
is_utf8(bytes) == \A i \in 1..Len(bytes) : bytes[i] < 128

\* HashMap::insert
map_insert(map, key, value) ==
  [k \in (DOMAIN map) \cup {key} |-> IF k = key THEN value ELSE map[k]]

\* The loop of TftpOAck::options over the pieces from index i on.
RECURSIVE collect_options(_, _, _)
collect_options(pieces, i, map) ==
  IF i > Len(pieces) \/ Len(pieces[i]) < 2
    THEN [ok |-> TRUE, err |-> "none", map |-> map]
  ELSE IF ~is_utf8(pieces[i])
    THEN [ok |-> FALSE, err |-> "NotAscii", map |-> map]
  ELSE IF i + 1 > Len(pieces)
    THEN [ok |-> FALSE, err |-> "MalformedPacket", map |-> map]
  ELSE IF ~is_utf8(pieces[i + 1])
    THEN [ok |-> FALSE, err |-> "NotAscii", map |-> map]
  ELSE collect_options(pieces, i + 2,
                       map_insert(map, pieces[i], pieces[i + 1]))

\* TftpOAck::options
oack_options(buf) ==
  collect_options(split_nul(SubSeq(buf, 3, Len(buf)), << >>), 1, << >>)

\* Mutant of parse_options: a key that is not known is refused.
parse_options_strict(raw_opts) ==
  [ok |-> DOMAIN raw_opts \subseteq {OPT_BLOCKSIZE_IDENT, OPT_TIMEOUT_IDENT,
                                     OPT_TRANSFERSIZE_IDENT},
   opts |-> << >>]

\* The option list built from a key/value map: blksize as u16, timeout
\* as u8, tsize as u32, in this order; a value that does not parse fails.
parse_options(raw_opts) ==
  LET has(k) == k \in DOMAIN raw_opts
      bs == IF has(OPT_BLOCKSIZE_IDENT)
              THEN from_str_radix(raw_opts[OPT_BLOCKSIZE_IDENT], U16_MAX)
              ELSE [ok |-> TRUE, val |-> 0]
      to == IF has(OPT_TIMEOUT_IDENT)
              THEN from_str_radix(raw_opts[OPT_TIMEOUT_IDENT], U8_MAX)
              ELSE [ok |-> TRUE, val |-> 0]
      ts == IF has(OPT_TRANSFERSIZE_IDENT)
              THEN from_str_radix(raw_opts[OPT_TRANSFERSIZE_IDENT], U32_MAX)
              ELSE [ok |-> TRUE, val |-> 0]
  IN  IF ~bs.ok \/ ~to.ok \/ ~ts.ok
        THEN [ok |-> FALSE, opts |-> << >>]
        ELSE [ok |-> TRUE,
              opts |->
                (IF has(OPT_BLOCKSIZE_IDENT)
                   THEN << [kind |-> "Blocksize", val |-> bs.val] >> ELSE << >>)
                \o (IF has(OPT_TIMEOUT_IDENT)
                      THEN << [kind |-> "Timeout", val |-> to.val] >> ELSE << >>)
                \o (IF has(OPT_TRANSFERSIZE_IDENT)
                      THEN << [kind |-> "TransferSize", val |-> ts.val] >>
                      ELSE << >>)]

\* Mutant of set_options: the options of the OACK are not taken over.
set_options_nothing(cur, opts) == cur

\* TftpConnection::set_options: each option assigned in turn.
RECURSIVE set_options(_, _)
set_options(cur, opts) ==
  IF opts = << >> THEN cur
  ELSE LET o == Head(opts)
           nxt == IF o.kind = "Blocksize" THEN [cur EXCEPT !.blocksize = o.val]
                  ELSE IF o.kind = "Timeout" THEN [cur EXCEPT !.timeout = o.val]
                  ELSE [cur EXCEPT !.transfer_size = o.val]
       IN  set_options(nxt, Tail(opts))

\* str::to_ascii_lowercase
lower_key(k) ==
  [i \in 1..Len(k) |-> IF k[i] \in 65..90 THEN k[i] + 32 ELSE k[i]]

(* ------------------------------- codec -------------------------------- *)
\* The fields of a packet of any kind; the fields a kind does not have
\* keep these values.  kind "none": no packet.
NoPacket ==
  [kind |-> "none", req |-> 0, filename |-> << >>, mode |-> "none",
   opts |-> << >>, blocknum |-> 0, data |-> << >>, code |-> 0,
   msg |-> << >>]

\* The codec at rest.
CodecIdle == [stage |-> "idle", pkt |-> NoPacket, buf |-> << >>, out |-> NoPacket]

\* No acceptor running.
AccIdle == [pc |-> "idle", tasks |-> << >>, who |-> 0, rx |-> << >>]

\* No receiving endpoint.
RemIdle == [pc |-> "idle"]

(* ------------------------------- state -------------------------------- *)
VARIABLES
  pc,         \* position of the task: the function and the point it is at
  peer,       \* address the socket is connected to (NoAddr: not connected)
  options,    \* TftpConnection.options: blocksize, timeout, transfer_size
  tx_mode,    \* TftpConnection.tx_mode
  cancelled,  \* the CancellationToken
  file,       \* send_file: the bytes of the file being read
  file_pos,   \* send_file: read position of file_read
  n_blocks,   \* send_file: n_blocks
  remainder,  \* send_file: remainder
  blocknum,   \* send_file: the loop variable; receive_file: blocknum
  file_buf,   \* send_file: file_buf, the bytes of the DATA packet pkt
  final,      \* send_file: TRUE in the final empty block after the loop
  attempts,   \* send_and_receive_ack: attempts
  result,     \* what send_and_receive_ack / the receive last returned
  init_data,  \* receive_file: init_data (<< >>: None)
  stream,     \* receive_file: the bytes written to the file
  sent,       \* history: datagrams handed to the socket, [dst, bytes];
              \*   an immediate repetition of the last one is not appended
  tx_count,   \* history: how often the last entry of sent was handed over
  last_rx,    \* history: outcome of the most recent socket receive
  n_timeouts, \* history: consecutive receive timeouts since the DATA
              \*   packet in file_buf was built
  writes,     \* history: block numbers written to the stream, in order
  driver,     \* which entry point runs: "get", "put" (TftpClient), or
              \*   "send_file", "receive_file" called on a connected socket
  req_options,\* TftpClient: the options of the request
  first_reply,\* history: the receive outcome TftpClient::get/put judged
  flushed,    \* receive_file: the BufWriter holds no unwritten bytes
              \*   (after flush(), or after its drop at a return)
  srv_options,\* the server's TftpConnection.options for a request
  srv_pc,     \* position of the server's handle_request ("idle": no
              \*   server in this run)
  srv_rx,     \* history: outcome of the server's most recent receive
  codec,      \* the packet codec on its own: the packet handed to a
              \*   builder, the bytes built, what the parser made of them
  acc,        \* the server's acceptor: its position, the tasks it has
              \*   spawned, who took the last step (0: the acceptor) and
              \*   the datagram that step received
  rem         \* the receiving endpoint a sender transfers to

vars == << pc, peer, options, tx_mode, cancelled, file, file_pos, n_blocks,
           remainder, blocknum, file_buf, final, attempts, result,
           init_data, stream, sent, tx_count, last_rx, n_timeouts,
           writes, driver, req_options, first_reply, flushed,
           srv_options, srv_pc, srv_rx, codec, acc, rem >>

conn_vars == << peer, options, tx_mode >>
send_vars == << file, file_pos, n_blocks, remainder, file_buf, final,
                attempts >>
recv_vars == << init_data, stream, writes, flushed >>
client_vars == << driver, req_options, first_reply >>
srv_vars == << srv_options, srv_pc, srv_rx >>

\* TftpOptions::default
TftpOptions_default ==
  [blocksize |-> DEFAULT_BLOCK_SIZE, timeout |-> DEFAULT_TIMEOUT_SECS,
   transfer_size |-> 0]

\* Block sizes a connection enters a transfer with.
BlockSizes == {1, 2, DEFAULT_BLOCK_SIZE}

\* Files handed to send_file: up to MaxFullBlocks full blocks, then
\* nothing or one more byte.
FileSizes(bs) == { q * bs + r : q \in 0..MaxFullBlocks, r \in {0, 1} \cap 0..(bs - 1) }

\* Content of a file of n bytes: position-dependent lower-case letters.
FileBytes(n) == [i \in 1..n |-> 97 + ((i - 1) % 26)]

\* opt_blocksize
opt_blocksize == options.blocksize

(* --------------------------- history helpers -------------------------- *)
\* The socket is handed a datagram for dst (socket.send / send_to).
Transmit(dst, bytes) ==
  LET e == [dst |-> dst, bytes |-> bytes]
  IN  IF sent # << >> /\ sent[Len(sent)] = e
        THEN /\ sent' = sent
             /\ tx_count' = tx_count + 1
        ELSE /\ sent' = Append(sent, e)
             /\ tx_count' = 1

NoTransmit == UNCHANGED << sent, tx_count >>

\* Mutant of send_error: the block is acknowledged instead.
send_error_as_ack(code, msg) == Transmit(peer, MutableTftpAck_new(U16(blocknum + 1)))

\* TftpConnection::send_error: an ERROR packet to the connected peer.
send_error(code, msg) == Transmit(peer, TftpErrorBuilder_build(code, msg))

(* ------------------------------ send_file ----------------------------- *)
\* u16 addition `a + b`: the sum, or on overflow what the build does
\* (overflow checks on: panic; off: wrap).
AddU16(a, b) ==
  IF a + b < 65536
    THEN { [panic |-> FALSE, val |-> a + b] }
    ELSE { [panic |-> TRUE, val |-> 0], [panic |-> FALSE, val |-> U16(a + b)] }

\* Mutant of loop_blocknum: the blocks are numbered from 0.
loop_blocknum_from0(b) == U16(b + 65535)

\* `blocknum as u16` of the loop variable.
loop_blocknum(b) == U16(b)

\* MutableTftpData::try_from + set_blocknum over a buffer whose payload
\* is data: the DATA opcode and the block number in the first 4 bytes.
data_packet(b, data) == to_be_bytes(OPCODE_DATA) \o to_be_bytes(b) \o data

\* Mutant of read_block: the read is not limited to a block.
read_block_unlimited(f, pos, blocksize) == SubSeq(f, pos + 1, Len(f))

\* file_read.take(blocksize).read_to_end: the next up to blocksize bytes.
read_block(f, pos, blocksize) ==
  SubSeq(f, pos + 1, Min(pos + blocksize, Len(f)))

\* n_blocks of send_file: filesize / blocksize, plus one for a remainder.
count_blocks(filesize, blocksize) ==
  (filesize \div blocksize)
    + (IF filesize % blocksize # 0 THEN 1 ELSE 0)

\* Mutant of needs_final_block: the final empty block is forgotten.
needs_final_block_never(r) == FALSE

\* send_file: `remainder == 0`, a final empty block is to be sent.
needs_final_block(r) == r = 0

\* Mutant of is_netascii: no mode is taken for netascii.
is_netascii_never(mode) == FALSE

\* Mutant of host_cancelled: the token is never seen as cancelled.
host_cancelled_never == FALSE

\* TftpConnection::host_cancelled: the cancellation token is set.
host_cancelled == cancelled

\* send_file: `conn.tx_mode() == Mode::NetAscii`.
is_netascii(mode) == mode = "NetAscii"

\* send_file, up to the loop: the netascii check and the block count.
SfStart ==
  /\ UNCHANGED << client_vars, srv_vars, codec, acc, rem >>
  /\ pc = "sf_start"
  /\ IF is_netascii(tx_mode)
       THEN /\ send_error(ERR_ILLEGALOPERATION, NetAsciiMsg)
            /\ pc' = "closed"
            /\ result' = "IllegalOperation"
            /\ UNCHANGED << n_blocks, remainder, blocknum, file_buf >>
       ELSE IF opt_blocksize = 0
         THEN \* filesize / 0 panics
              /\ pc' = "panic"
              /\ NoTransmit
              /\ UNCHANGED << n_blocks, remainder, blocknum, file_buf, result >>
       ELSE /\ file_buf' = Fill(4 + opt_blocksize, 0)
            /\ n_blocks' = count_blocks(Len(file), opt_blocksize)
            /\ remainder' = Len(file) % opt_blocksize
            /\ blocknum' = 1
            /\ pc' = "sf_loop"
            /\ NoTransmit
            /\ UNCHANGED result
  /\ UNCHANGED << conn_vars, cancelled, file, file_pos, final, attempts,
                  recv_vars, last_rx, n_timeouts >>

\* send_file: the head of one iteration of the block loop up to the call
\* of send_and_receive_ack; after the loop, the final empty block.
SfLoop ==
  /\ UNCHANGED << client_vars, srv_vars, codec, acc, rem >>
  /\ pc = "sf_loop"
  /\ IF blocknum <= n_blocks
       THEN IF host_cancelled
              THEN /\ pc' = "closed"
                   /\ result' = "Cancelled"
                   /\ NoTransmit
                   /\ UNCHANGED << file_pos, file_buf, final, attempts >>
              ELSE \E read_ok \in BOOLEAN :
                     IF read_ok
                       THEN LET data == read_block(file, file_pos, opt_blocksize)
                            IN  /\ file_buf' = data_packet(loop_blocknum(blocknum), data)
                                /\ file_pos' = file_pos + Len(data)
                                /\ attempts' = 0
                                /\ pc' = "sar_head"
                                /\ NoTransmit
                                /\ UNCHANGED << final, result >>
                       ELSE /\ send_error(ERR_STORAGEERROR, << >>)
                            /\ pc' = "closed"
                            /\ result' = "StorageError"
                            /\ UNCHANGED << file_pos, file_buf, final, attempts >>
       ELSE IF needs_final_block(remainder)
              THEN \E n \in AddU16(pkt_blocknum(file_buf), 1) :
                     /\ file_buf' = data_packet(n.val, << >>)
                     /\ final' = TRUE
                     /\ attempts' = 0
                     /\ pc' = IF n.panic THEN "panic" ELSE "sar_head"
                     /\ NoTransmit
                     /\ UNCHANGED << file_pos, result >>
              ELSE /\ pc' = "done"
                   /\ NoTransmit
                   /\ UNCHANGED << file_pos, file_buf, final, attempts, result >>
  /\ n_timeouts' = 0
  /\ UNCHANGED << conn_vars, cancelled, file, n_blocks, remainder, blocknum,
                  recv_vars, last_rx >>

\* Length of the receive buffer of send_and_receive_ack.
ACK_BUF_LEN == 16

\* Mutant of retries_exhausted: the retries never run out.
retries_exhausted_never(a) == FALSE

\* send_and_receive_ack: `attempts > DEFAULT_RETRANSMIT_ATTEMPTS`.
retries_exhausted(a) == a > DEFAULT_RETRANSMIT_ATTEMPTS

\* Mutant of ack_matches: any ACK is taken for the awaited one.
ack_matches_any(ack, data_pkt) == TRUE

\* send_and_receive_ack: the received ACK is the one for data_pkt.
ack_matches(ack, data_pkt) == pkt_blocknum(ack) = pkt_blocknum(data_pkt)

\* send_and_receive_ack: the head of one loop iteration, up to the
\* receive: the cancellation check and the send of data_pkt.
SarSend ==
  /\ UNCHANGED << client_vars, srv_vars, codec, acc, rem >>
  /\ pc = "sar_head"
  /\ IF host_cancelled
       THEN /\ result' = "Timeout"
            /\ pc' = "closed"
            /\ NoTransmit
       ELSE \E send_ok \in BOOLEAN :
              IF send_ok
                THEN /\ Transmit(peer, file_buf)
                     /\ pc' = "sar_recv"
                     /\ UNCHANGED result
                ELSE /\ result' = "LowerLayer"
                     /\ pc' = "closed"
                     /\ NoTransmit
  /\ UNCHANGED << conn_vars, cancelled, send_vars, blocknum, recv_vars,
                  last_rx, n_timeouts >>

\* Datagrams the environment may deliver while the ACK of block n is
\* awaited: ACKs around n, a long ACK, a short one, DATA, ERROR.
SenderDatagrams(n) ==
  { MutableTftpAck_new(b) : b \in {U16(n + 65535), n, U16(n + 1)} }
    \cup { MutableTftpAck_new(n) \o << 0 >>,
           << 0, OPCODE_ACK, 0 >>,
           data_packet(n, << >>),
           to_be_bytes(OPCODE_ERROR) \o << 0, 0, 0 >> }

\* Sources other than the connected peer a datagram can come from.
StraySources == {PeerTid, StrayPort, StrayHost} \ {peer}

\* An ERROR packet as a peer sends it.
PeerError == to_be_bytes(OPCODE_ERROR) \o << 0, 0, 0 >>

\* Receive outcomes while send_and_receive_ack waits: a timeout, an I/O
\* error, any of the datagrams from the peer, and from other sources the
\* awaited ACK and an ERROR.
SenderRx ==
  {RxTimeout, RxIoError}
    \cup { RxDgram(peer, d) : d \in SenderDatagrams(pkt_blocknum(file_buf)) }
    \cup { RxDgram(a, d) : a \in StraySources,
            d \in {MutableTftpAck_new(pkt_blocknum(file_buf)), PeerError} }

\* send_and_receive_ack: the receive has returned r; the reply is judged,
\* and on success send_file goes on to its next block.
SarReply(r) ==
  LET res == receive_packet(ACK_BUF_LEN, "Ack", r, peer)
  IN  /\ last_rx' = r
      /\ n_timeouts' = IF r = RxTimeout THEN n_timeouts + 1 ELSE 0
      /\ IF res.ok
           THEN IF ~ack_matches(res.pkt, file_buf)
                  THEN /\ result' = "UnexpectedBlockAck"
                       /\ pc' = "closed"
                       /\ UNCHANGED << blocknum, attempts >>
                  ELSE /\ result' = "Ok"
                       /\ pc' = IF final THEN "done" ELSE "sf_loop"
                       /\ blocknum' = IF final THEN blocknum ELSE blocknum + 1
                       /\ UNCHANGED attempts
           ELSE IF retries_exhausted(attempts)
                  THEN /\ result' = res.err
                       /\ pc' = "closed"
                       /\ UNCHANGED << blocknum, attempts >>
                  ELSE /\ attempts' = attempts + 1
                       /\ pc' = "sar_head"
                       /\ UNCHANGED << blocknum, result >>
      /\ NoTransmit
      /\ UNCHANGED << conn_vars, cancelled, file, file_pos, n_blocks,
                      remainder, file_buf, final, recv_vars >>

\* send_and_receive_ack: the receive returns one of the outcomes the
\* environment can produce.
SarRecv ==
  /\ UNCHANGED << client_vars, srv_vars, codec, acc, rem >>
  /\ pc = "sar_recv"
  /\ \E r \in SenderRx : SarReply(r)

\* The process-wide CancellationToken is cancelled (by the signal handler).
Cancel ==
  /\ UNCHANGED << client_vars, srv_vars, codec, acc, rem >>
  /\ ~cancelled
  /\ pc \notin {"done", "closed", "panic"}
  /\ cancelled' = TRUE
  /\ UNCHANGED << pc, conn_vars, send_vars, blocknum, result, recv_vars,
                  sent, tx_count, last_rx, n_timeouts >>

(* ---------------------------- receive_file ---------------------------- *)
\* Mutant of wrapping_add1: the number stays as it is.
wrapping_add1_stuck(b) == b

\* u16::wrapping_add(1)
wrapping_add1(b) == U16(b + 1)

\* Mutant of expected_block: the loop accepts the block after the next.
expected_block_skipping(b) == U16(b + 2)

\* receive_file: the block number the loop accepts next.
expected_block(b) == wrapping_add1(b)

\* Mutant of is_last_block: a full block ends the transfer too.
is_last_block_or_full(data_pkt, blocksize) == pkt_data_len(data_pkt) <= blocksize

\* receive_file: `data_len() < blocksize`, the last block of a transfer.
is_last_block(data_pkt, blocksize) == pkt_data_len(data_pkt) < blocksize

\* receive_file before its loop: the first block handed in by the caller
\* is written and acknowledged as block 1.
RfStart ==
  /\ UNCHANGED << client_vars, srv_vars, codec, acc, rem >>
  /\ pc = "rf_start"
  /\ IF init_data # << >>
       THEN \E write_ok \in BOOLEAN :
              IF write_ok
                THEN /\ stream' = stream \o pkt_data(init_data)
                     /\ writes' = Append(writes, pkt_blocknum(init_data))
                     /\ blocknum' = wrapping_add1(0)
                     /\ Transmit(peer, MutableTftpAck_new(wrapping_add1(0)))
                     /\ pc' = IF is_last_block(init_data, opt_blocksize)
                                THEN "done" ELSE "rf_loop"
                     /\ result' = IF is_last_block(init_data, opt_blocksize)
                                    THEN "Ok" ELSE result
                     \* the early return drops the BufWriter, which
                     \* writes out what it holds
                     /\ flushed' = is_last_block(init_data, opt_blocksize)
                ELSE /\ send_error(ERR_STORAGEERROR, << >>)
                     /\ pc' = "closed"
                     /\ result' = "StorageError"
                     /\ blocknum' = 0
                     /\ flushed' = TRUE
                     /\ UNCHANGED << stream, writes >>
       ELSE /\ blocknum' = 0
            /\ pc' = "rf_loop"
            /\ NoTransmit
            /\ UNCHANGED << stream, writes, result, flushed >>
  /\ UNCHANGED << conn_vars, cancelled, send_vars, init_data, last_rx,
                  n_timeouts >>

\* receive_file: the head of one loop iteration, the cancellation check.
RfLoop ==
  /\ UNCHANGED << client_vars, srv_vars, codec, acc, rem >>
  /\ pc = "rf_loop"
  /\ IF host_cancelled
       THEN /\ pc' = "closed"
            /\ result' = "Cancelled"
            /\ flushed' = TRUE
       ELSE /\ pc' = "rf_recv"
            /\ UNCHANGED << result, flushed >>
  /\ NoTransmit
  /\ UNCHANGED << conn_vars, cancelled, send_vars, blocknum, init_data,
                  stream, writes, last_rx, n_timeouts >>

\* Payload bytes the environment fills DATA packets with.
PayloadBytes == {120, 121}

\* Payload lengths around the block size; a full block only while the
\* transfer may still grow.
PayloadLens(bs) ==
  {0, bs - 1} \cup (IF Len(writes) + 1 < MaxRecvBlocks THEN {bs, bs + 1} ELSE {})

\* Datagrams the environment may deliver while block cur + 1 is awaited:
\* DATA for the block before, the expected one and the one after; and a
\* short DATA, an ACK, an ERROR.
ReceiverDatagrams(cur, bs) ==
  { data_packet(b, Fill(n, f)) :
      b \in {cur, U16(cur + 1), U16(cur + 2)},
      n \in PayloadLens(bs), f \in PayloadBytes }
    \cup { << 0, OPCODE_DATA, 0 >>,
           MutableTftpAck_new(cur),
           to_be_bytes(OPCODE_ERROR) \o << 0, 0, 0 >> }

\* Receive outcomes while receive_file waits: a timeout, an I/O error,
\* any of the datagrams from the peer, and from other sources the
\* awaited DATA (short and, while the transfer may grow, full) and an
\* ERROR.
ReceiverRx ==
  {RxTimeout, RxIoError}
    \cup { RxDgram(peer, d) : d \in ReceiverDatagrams(blocknum, opt_blocksize) }
    \cup { RxDgram(a, d) : a \in StraySources,
            d \in { data_packet(U16(blocknum + 1), Fill(n, 120)) :
                      n \in PayloadLens(opt_blocksize) \ {opt_blocksize + 1} }
                    \cup {PeerError} }

\* receive_file: the receive returns; a DATA packet with the expected
\* block number is written and acknowledged, any other one is skipped,
\* an error ends the transfer.
RfRecv ==
  /\ UNCHANGED << client_vars, srv_vars, codec, acc, rem >>
  /\ pc = "rf_recv"
  /\ \E r \in ReceiverRx :
       LET res == receive_packet(4 + opt_blocksize, "Data", r, peer)
       IN  /\ last_rx' = r
           /\ IF ~res.ok
                THEN /\ pc' = "closed"
                     /\ result' = res.err
                     /\ NoTransmit
                     /\ flushed' = TRUE
                     /\ UNCHANGED << blocknum, stream, writes >>
              ELSE IF pkt_blocknum(res.pkt) # expected_block(blocknum)
                THEN /\ pc' = "rf_loop"
                     /\ NoTransmit
                     /\ UNCHANGED << blocknum, stream, writes, result, flushed >>
              ELSE \E write_ok \in BOOLEAN :
                     IF write_ok
                       THEN /\ stream' = stream \o pkt_data(res.pkt)
                            /\ writes' = Append(writes, pkt_blocknum(res.pkt))
                            /\ blocknum' = wrapping_add1(blocknum)
                            /\ Transmit(peer, MutableTftpAck_new(wrapping_add1(blocknum)))
                            /\ pc' = IF is_last_block(res.pkt, opt_blocksize)
                                       THEN "done" ELSE "rf_loop"
                            /\ result' = IF is_last_block(res.pkt, opt_blocksize)
                                           THEN "Ok" ELSE result
                            \* file.flush() after the loop
                            /\ flushed' = is_last_block(res.pkt, opt_blocksize)
                       ELSE /\ send_error(ERR_STORAGEERROR, << >>)
                            /\ pc' = "closed"
                            /\ result' = "StorageError"
                            /\ flushed' = TRUE
                            /\ UNCHANGED << blocknum, stream, writes >>
  /\ UNCHANGED << conn_vars, cancelled, send_vars, init_data, n_timeouts >>

(* ----------------------------- TftpClient ----------------------------- *)
\* The file name of the request: "f".
Filename == << 102 >>

\* Option lists a request is built with (cli::parse_tftp_options order:
\* tsize, blksize, timeout).
ReqOptionLists ==
  { << >>,
    << [kind |-> "Blocksize", val |-> 2] >>,
    << [kind |-> "TransferSize", val |-> 0],
       [kind |-> "Blocksize", val |-> 2],
       [kind |-> "Timeout", val |-> 3] >> }

\* TftpClient::put: a requested TransferSize carries the size of the file.
RECURSIVE with_file_size(_, _)
with_file_size(opts, size) ==
  IF opts = << >> THEN << >>
  ELSE << IF Head(opts).kind = "TransferSize"
            THEN [kind |-> "TransferSize", val |-> size]
            ELSE Head(opts) >> \o with_file_size(Tail(opts), size)

\* Mutant of ip_mismatch: the source of the first reply is not looked at.
ip_mismatch_never(remote, server) == FALSE

\* TftpClient::get / put: `remote.ip() != server.ip()`.
ip_mismatch(remote, server) == remote.ip # server.ip

\* TftpConnection::set_reply_timeout: set_read_timeout(Some(timeout))
\* returns Err for a zero Duration and the unwrap() panics.
set_reply_timeout_panics(opts) == opts.timeout = 0

\* Mutant of options_after_fallback: the requested options are put into
\* effect although the server did not acknowledge them.
options_after_fallback_requested(cur, requested) == set_options(cur, requested)

\* The options in effect when the first reply is DATA (get) or ACK (put):
\* these arms do not call set_options.
options_after_fallback(cur, requested) == cur

\* TftpClient::get and TftpClient::put up to the receive of the first
\* reply: the file is opened, the request built and sent to the server.
ClientStart ==
  /\ pc \in {"get_start", "put_start"}
  /\ \E open_ok \in BOOLEAN :
       IF open_ok
         THEN /\ Transmit(ServerAddr,
                   TftpReqBuilder_build(
                     IF pc = "get_start" THEN OPCODE_RRQ ELSE OPCODE_WRQ,
                     Filename,
                     IF pc = "get_start" THEN req_options
                     ELSE with_file_size(req_options, Len(file))))
              /\ pc' = IF pc = "get_start" THEN "get_wait" ELSE "put_wait"
              /\ UNCHANGED result
         ELSE /\ pc' = "closed"
              /\ result' = "OpenFailed"
              /\ NoTransmit
  /\ UNCHANGED << conn_vars, cancelled, send_vars, blocknum, recv_vars,
                  last_rx, n_timeouts, client_vars, srv_vars,
                  codec, acc, rem >>

\* "BLKSIZE": the blksize key as a server may spell it (option names
\* are case-insensitive on the wire).
BLKSIZE_UPPER == << 66, 76, 75, 83, 73, 90, 69 >>

\* OACK packets a server may answer with: well-formed ones, a timeout of
\* 0, a value that is no number, a key without value, an upper-case key.
OAckDatagrams ==
  { TftpOAckBuilder_build(o) :
      o \in { << [kind |-> "Blocksize", val |-> 2] >>,
              << [kind |-> "Blocksize", val |-> 1],
                 [kind |-> "Timeout", val |-> 3] >>,
              << [kind |-> "TransferSize", val |-> 7] >>,
              << [kind |-> "Timeout", val |-> 0] >> } }
    \cup { to_be_bytes(OPCODE_OACK) \o OPT_BLOCKSIZE_IDENT \o << 0, 120, 0 >>,
           to_be_bytes(OPCODE_OACK) \o OPT_BLOCKSIZE_IDENT,
           to_be_bytes(OPCODE_OACK) \o BLKSIZE_UPPER \o << 0, 50, 0 >> }

\* First replies to an RRQ: an OACK, DATA 1 (empty, full, oversized),
\* DATA 2, an ACK, an ERROR.
GetDatagrams ==
  OAckDatagrams
    \cup { data_packet(1, Fill(n, 120)) :
             n \in {0, DEFAULT_BLOCK_SIZE, DEFAULT_BLOCK_SIZE + 1} }
    \cup { data_packet(2, Fill(1, 121)), data_packet(2, Fill(DEFAULT_BLOCK_SIZE, 121)),
           MutableTftpAck_new(0), PeerError }

\* First replies to a WRQ: an OACK, ACK 0, ACK 1, DATA, an ERROR.
PutDatagrams ==
  OAckDatagrams
    \cup { MutableTftpAck_new(0), MutableTftpAck_new(1),
           data_packet(1, << >>), PeerError }

\* Receive outcomes of the wait for the first reply.
ClientRx(datagrams) ==
  {RxTimeout, RxIoError}
    \cup { RxDgram(PeerTid, d) : d \in datagrams }
    \cup { RxDgram(a, d) : a \in {ServerAddr, StrayHost},
             d \in { TftpOAckBuilder_build(<< [kind |-> "Blocksize", val |-> 2] >>),
                     data_packet(1, Fill(1, 120)), MutableTftpAck_new(0) } }

\* TftpClient::get: the first reply is judged.  An OACK from the server's
\* host connects the socket to its source, sets the options and is
\* acknowledged with ACK 0; a DATA packet from the server's host connects
\* the socket to the server address and is handed to receive_file.
GetFirstOn(r) ==
  /\ pc = "get_wait"
  /\ LET res  == receive_packet_from(4 + DEFAULT_BLOCK_SIZE, "any", r)
           kind == IF res.ok THEN try_from_buf(res.pkt).kind ELSE "none"
       IN  /\ last_rx' = r
           /\ first_reply' = r
           /\ IF kind = "OAck"
                THEN IF ip_mismatch(res.src, ServerAddr)
                       THEN /\ pc' = "closed"
                            /\ result' = "UnknownPeer"
                            /\ NoTransmit
                            /\ UNCHANGED << peer, options, init_data >>
                       ELSE LET raw  == oack_options(res.pkt)
                                opts == parse_options(raw.map)
                            IN  IF ~raw.ok \/ ~opts.ok
                                  THEN \* unwrap() of an Err panics
                                       /\ pc' = "panic"
                                       /\ peer' = res.src
                                       /\ NoTransmit
                                       /\ UNCHANGED << options, init_data, result >>
                                  ELSE IF set_reply_timeout_panics(set_options(options, opts.opts))
                                    THEN /\ pc' = "panic"
                                         /\ peer' = res.src
                                         /\ options' = set_options(options, opts.opts)
                                         /\ NoTransmit
                                         /\ UNCHANGED << init_data, result >>
                                  ELSE /\ peer' = res.src
                                       /\ options' = set_options(options, opts.opts)
                                       /\ Transmit(res.src, MutableTftpAck_new(0))
                                       /\ init_data' = << >>
                                       /\ pc' = "rf_start"
                                       /\ UNCHANGED result
              ELSE IF kind = "Data"
                THEN IF ip_mismatch(res.src, ServerAddr)
                       THEN /\ pc' = "closed"
                            /\ result' = "UnknownPeer"
                            /\ NoTransmit
                            /\ UNCHANGED << peer, options, init_data >>
                       ELSE /\ peer' = ServerAddr
                            /\ options' = options_after_fallback(options, req_options)
                            /\ init_data' = res.pkt
                            /\ pc' = "rf_start"
                            /\ NoTransmit
                            /\ UNCHANGED result
              ELSE /\ pc' = "closed"
                   /\ result' = IF res.ok THEN "UnexpectedFirstReply" ELSE res.err
                   /\ NoTransmit
                   /\ UNCHANGED << peer, options, init_data >>
  /\ UNCHANGED << tx_mode, cancelled, send_vars, blocknum, stream, writes,
                  flushed, n_timeouts, driver, req_options >>

\* TftpClient::get on any first reply the environment may deliver.
GetFirst ==
  /\ \E r \in ClientRx(GetDatagrams) : GetFirstOn(r)
  /\ UNCHANGED << srv_vars, codec, acc, rem >>

\* Length of the receive buffer of TftpClient::put.
PUT_BUF_LEN == 64

\* TftpClient::put: the first reply is judged.  An OACK from the server's
\* host connects the socket to its source and sets the options; an ACK
\* from the server's host connects the socket to the server address;
\* both go on to send_file.
PutFirstOn(r) ==
  /\ pc = "put_wait"
  /\ LET res  == receive_packet_from(PUT_BUF_LEN, "any", r)
           kind == IF res.ok THEN try_from_buf(res.pkt).kind ELSE "none"
       IN  /\ last_rx' = r
           /\ first_reply' = r
           /\ IF kind = "OAck"
                THEN IF ip_mismatch(res.src, ServerAddr)
                       THEN /\ pc' = "closed"
                            /\ result' = "UnknownPeer"
                            /\ UNCHANGED << peer, options >>
                       ELSE LET raw  == oack_options(res.pkt)
                                opts == parse_options(raw.map)
                            IN  IF ~raw.ok \/ ~opts.ok
                                  THEN /\ pc' = "panic"
                                       /\ peer' = res.src
                                       /\ UNCHANGED << options, result >>
                                  ELSE IF set_reply_timeout_panics(set_options(options, opts.opts))
                                    THEN /\ pc' = "panic"
                                         /\ peer' = res.src
                                         /\ options' = set_options(options, opts.opts)
                                         /\ UNCHANGED result
                                  ELSE /\ peer' = res.src
                                       /\ options' = set_options(options, opts.opts)
                                       /\ pc' = "sf_start"
                                       /\ UNCHANGED result
              ELSE IF kind = "Ack"
                THEN IF ip_mismatch(res.src, ServerAddr)
                       THEN /\ pc' = "closed"
                            /\ result' = "UnknownPeer"
                            /\ UNCHANGED << peer, options >>
                       ELSE /\ peer' = ServerAddr
                            /\ options' = options_after_fallback(options, req_options)
                            /\ pc' = "sf_start"
                            /\ UNCHANGED result
              ELSE /\ pc' = "closed"
                   /\ result' = IF res.ok THEN "UnexpectedFirstReply" ELSE res.err
                   /\ UNCHANGED << peer, options >>
  /\ NoTransmit
  /\ UNCHANGED << tx_mode, cancelled, send_vars, blocknum, recv_vars,
                  n_timeouts, driver, req_options >>

\* TftpClient::put on any first reply the environment may deliver.
PutFirst ==
  /\ \E r \in ClientRx(PutDatagrams) : PutFirstOn(r)
  /\ UNCHANGED << srv_vars, codec, acc, rem >>

(* -------------------- the server's option negotiation ----------------- *)
\* Length of the receive buffer of server_task.
SERVER_BUF_LEN == 128

\* The address the client's socket is bound to.
ClientAddr == [ip |-> "client", port |-> 40000]

\* TftpReq::options: the pieces after file name and mode, as key/value
\* pairs.
req_options_map(buf) ==
  collect_options(split_nul(SubSeq(buf, 3, Len(buf)), << >>), 3, << >>)

\* OptionNegotiation::build_oack_packet: the OACK opcode and each option
\* as `key NUL value NUL`.
build_oack_packet(opts) == to_be_bytes(OPCODE_OACK) \o options_bytes(opts)

\* Mutant of merge_from: the negotiated options are not taken over.
merge_from_nothing(cur, opts) == cur

\* TftpOptions::merge_from: each negotiated option assigned in turn.
RECURSIVE merge_from(_, _)
merge_from(cur, opts) ==
  IF opts = << >> THEN cur
  ELSE merge_from(
         IF Head(opts).kind = "Blocksize"
           THEN [cur EXCEPT !.blocksize = Head(opts).val]
         ELSE IF Head(opts).kind = "Timeout"
           THEN [cur EXCEPT !.timeout = Head(opts).val]
         ELSE [cur EXCEPT !.transfer_size = Head(opts).val],
         Tail(opts))

\* The file the server is asked for.
SrvFile == FileBytes(3)

\* Mutant of open_error_code: every failure to open is a StorageError.
open_error_code_storage(e) == ERR_STORAGEERROR

\* handle_request: the error code for a file that cannot be opened.
open_error_code(e) ==
  IF e = "NotFound" THEN ERR_FILENOTFOUND
  ELSE IF e = "PermissionDenied" THEN ERR_ACCESSVIOLATION
  ELSE ERR_STORAGEERROR

\* handle_request up to the opening of the file: a file that cannot be
\* opened is answered with one ERROR packet and the request is dropped.
HandleRequest ==
  /\ srv_pc = "listen"
  /\ pc \in {"get_wait", "put_wait"}
  /\ \E e \in {"Ok", "NotFound", "PermissionDenied", "Other"} :
       IF e = "Ok"
         THEN /\ srv_pc' = "opened"
              /\ NoTransmit
         ELSE /\ Transmit(ClientAddr,
                   TftpErrorBuilder_build(open_error_code(e), << >>))
              /\ srv_pc' = IF e = "NotFound" THEN "not_found"
                           ELSE IF e = "PermissionDenied" THEN "no_access"
                           ELSE "no_storage"
  /\ UNCHANGED << pc, conn_vars, cancelled, send_vars, blocknum, result,
                  recv_vars, last_rx, n_timeouts, client_vars, srv_options,
                  srv_rx, codec, acc, rem >>

\* handle_request, the negotiation step: the options of the request are
\* read and parsed, merged into the connection's options and, if there
\* are any, acknowledged with an OACK.  After the OACK for a read request
\* the server waits for ACK 0; otherwise the reply timeout is set.
NegotiateOptions ==
  /\ srv_pc = "opened"
  /\ LET req == Truncate(sent[1].bytes, SERVER_BUF_LEN)
         raw == req_options_map(req)
         neg == parse_options(raw.map)
     IN  IF ~raw.ok \/ ~neg.ok
           THEN \* unwrap() of an Err panics
                /\ srv_pc' = "panic"
                /\ NoTransmit
                /\ UNCHANGED srv_options
           ELSE /\ srv_options' = merge_from(srv_options, neg.opts)
                /\ IF neg.opts # << >>
                     THEN Transmit(ClientAddr, build_oack_packet(neg.opts))
                     ELSE NoTransmit
                /\ srv_pc' = IF neg.opts # << >> /\ Opcode(req) = OPCODE_RRQ
                               THEN "await_ack0"
                             ELSE IF set_reply_timeout_panics(
                                       merge_from(srv_options, neg.opts))
                               THEN "panic" ELSE "negotiated"
  /\ UNCHANGED << pc, conn_vars, cancelled, send_vars, blocknum, result,
                  recv_vars, last_rx, n_timeouts, client_vars, srv_rx,
                  codec, acc, rem >>

\* The server's OACK is on the wire.
OAckSent ==
  /\ Len(sent) >= 2
  /\ sent[2].dst = ClientAddr
  /\ Opcode(sent[2].bytes) = OPCODE_OACK

\* Mutant of is_ack0: whatever the wait ends with counts as ACK 0.
is_ack0_any(r) == TRUE

\* The wait of the negotiation ended with ACK 0 from the client.
is_ack0(r) ==
  /\ r.kind = "dgram"
  /\ r.src = ClientAddr
  /\ r.bytes = MutableTftpAck_new(0)

\* The negotiation of a read request waits for the client's answer to the
\* OACK: ACK 0 lets the transfer begin, anything else is an Err and the
\* unwrap() panics.  What arrives is a packet the client has sent to the
\* transfer port, another ACK, an ERROR, or nothing.
AwaitAck0 ==
  /\ srv_pc = "await_ack0"
  /\ \E r \in {RxTimeout, RxDgram(ClientAddr, MutableTftpAck_new(1)),
               RxDgram(ClientAddr, PeerError)}
              \cup { RxDgram(ClientAddr, sent[i].bytes) :
                       i \in { j \in 1..Len(sent) : sent[j].dst = PeerTid } } :
       /\ srv_rx' = r
       /\ srv_pc' = IF ~is_ack0(r) \/ set_reply_timeout_panics(srv_options)
                      THEN "panic" ELSE "negotiated"
  /\ NoTransmit
  /\ UNCHANGED << pc, conn_vars, cancelled, send_vars, blocknum, result,
                  recv_vars, last_rx, n_timeouts, client_vars, srv_options,
                  codec, acc, rem >>

\* handle_request after the negotiation and serve_file up to its first
\* DATA packet: a write request is not served; a read request in netascii
\* mode is refused; otherwise block 1 of the file, or the empty final
\* block of an empty file, goes to the client.
serve_file ==
  /\ srv_pc = "negotiated"
  /\ IF Opcode(sent[1].bytes) = OPCODE_WRQ
       THEN /\ srv_pc' = "done"
            /\ NoTransmit
     ELSE IF is_netascii(tx_mode)
       THEN /\ Transmit(ClientAddr,
                 TftpErrorBuilder_build(ERR_ILLEGALOPERATION, NetAsciiMsg))
            /\ srv_pc' = "done"
     ELSE IF srv_options.blocksize = 0
       THEN \* filesize / 0 panics
            /\ srv_pc' = "panic"
            /\ NoTransmit
     ELSE /\ Transmit(ClientAddr,
               data_packet(1, read_block(SrvFile, 0, srv_options.blocksize)))
          /\ srv_pc' = "serving"
  /\ UNCHANGED << pc, conn_vars, cancelled, send_vars, blocknum, result,
                  recv_vars, last_rx, n_timeouts, client_vars, srv_options,
                  srv_rx, codec, acc, rem >>

\* TftpClient::get receives a packet the server sent, from the port the
\* server bound for the transfer.
NegGetReply ==
  /\ \E i \in 2..Len(sent) :
       /\ sent[i].dst = ClientAddr
       /\ GetFirstOn(RxDgram(PeerTid, sent[i].bytes))
  /\ UNCHANGED << srv_vars, codec, acc, rem >>

\* TftpClient::put receives a packet the server sent.
NegPutReply ==
  /\ \E i \in 2..Len(sent) :
       /\ sent[i].dst = ClientAddr
       /\ PutFirstOn(RxDgram(PeerTid, sent[i].bytes))
  /\ UNCHANGED << srv_vars, codec, acc, rem >>

\* Values a user asks for (cli::ClientOpts: any u16 but the default, any
\* u8 but the default).
NegBlockSizes == {0, 8, 1428, 65464}
NegTimeouts == {0, 1, 255}

\* The option lists of cli::parse_tftp_options: tsize, blksize, timeout,
\* each present or not.
NegOptionLists ==
  { ts \o bs \o to :
      ts \in { << >>, << [kind |-> "TransferSize", val |-> 0] >> },
      bs \in { << >> } \cup { << [kind |-> "Blocksize", val |-> v] >> : v \in NegBlockSizes },
      to \in { << >> } \cup { << [kind |-> "Timeout", val |-> v] >> : v \in NegTimeouts } }

\* A client request meets the server's negotiation.
NegInit ==
  /\ peer = NoAddr
  /\ options = TftpOptions_default
  /\ tx_mode = "Octet"
  /\ req_options \in NegOptionLists
  /\ \/ /\ driver = "get"
        /\ pc = "get_start"
        /\ file = << >>
     \/ /\ driver = "put"
        /\ pc = "put_start"
        /\ file = FileBytes(3)
  /\ first_reply = RxTimeout
  /\ cancelled = FALSE
  /\ file_pos = 0
  /\ n_blocks = 0
  /\ remainder = 0
  /\ blocknum = 0
  /\ file_buf = << >>
  /\ final = FALSE
  /\ attempts = 0
  /\ result = "none"
  /\ init_data = << >>
  /\ stream = << >>
  /\ sent = << >>
  /\ tx_count = 0
  /\ last_rx = RxTimeout
  /\ n_timeouts = 0
  /\ writes = << >>
  /\ flushed = TRUE
  /\ srv_options = TftpOptions_default
  /\ srv_pc = "listen"
  /\ srv_rx = RxTimeout
  /\ acc = AccIdle
  /\ rem = RemIdle
  /\ codec = CodecIdle

NegNext ==
  \/ ClientStart
  \/ HandleRequest
  \/ NegotiateOptions
  \/ AwaitAck0
  \/ serve_file
  \/ NegGetReply
  \/ NegPutReply

NegSpec == NegInit /\ [][NegNext]_vars

(* --------------------------- specification ---------------------------- *)
Init ==
  /\ \/ \* send_file or receive_file on a socket connected to the peer,
        \* with the options of a negotiation
        /\ peer = PeerTid
        /\ req_options = << >>
        /\ \E bs \in BlockSizes :
             /\ options = [TftpOptions_default EXCEPT !.blocksize = bs]
             /\ \/ /\ driver = "send_file"
                   /\ pc = "sf_start"
                   /\ \E n \in FileSizes(bs) : file = FileBytes(n)
                   /\ tx_mode \in {"Octet", "NetAscii"}
                \/ /\ driver = "receive_file"
                   /\ pc = "rf_start"
                   /\ file = << >>
                   /\ tx_mode = "Octet"
     \/ \* TftpClient::request on a new TftpConnection
        /\ peer = NoAddr
        /\ options = TftpOptions_default
        /\ tx_mode = "Octet"
        /\ req_options \in ReqOptionLists
        /\ \/ /\ driver = "get"
              /\ pc = "get_start"
              /\ file = << >>
           \/ /\ driver = "put"
              /\ pc = "put_start"
              /\ \E n \in FileSizes(2) : file = FileBytes(n)
  /\ first_reply = RxTimeout
  /\ cancelled = FALSE
  /\ file_pos = 0
  /\ n_blocks = 0
  /\ remainder = 0
  /\ blocknum = 0
  /\ file_buf = << >>
  /\ final = FALSE
  /\ attempts = 0
  /\ result = "none"
  /\ init_data = << >>
  /\ stream = << >>
  /\ sent = << >>
  /\ tx_count = 0
  /\ last_rx = RxTimeout
  /\ n_timeouts = 0
  /\ writes = << >>
  /\ flushed = TRUE
  /\ srv_options = TftpOptions_default
  /\ srv_pc = "idle"
  /\ srv_rx = RxTimeout
  /\ acc = AccIdle
  /\ rem = RemIdle
  /\ codec = CodecIdle

Next ==
  \/ SfStart
  \/ SfLoop
  \/ SarSend
  \/ SarRecv
  \/ RfStart
  \/ RfLoop
  \/ RfRecv
  \/ ClientStart
  \/ GetFirst
  \/ PutFirst
  \/ Cancel

Spec == Init /\ [][Next]_vars

(* ----------------- transfers at the block-number wrap ------------------ *)
\* The block size of the transfers followed across the wrap.
WrapBlockSize == 1

\* The last block number before the wrap.
LastBlock == 65535

\* Files whose block LastBlock is the last one, or the last but one.
WrapFileSizes == {LastBlock * WrapBlockSize, (LastBlock + 1) * WrapBlockSize}

\* send_file and receive_file picked up after block LastBlock - 1 was
\* acknowledged: send_file at the head of the iteration for block
\* LastBlock, receive_file at the head of its loop.  sent holds the last
\* datagram handed to the socket; stream and writes record what is
\* written from here on.
WrapInit ==
  /\ peer = PeerTid
  /\ options = [TftpOptions_default EXCEPT !.blocksize = WrapBlockSize]
  /\ tx_mode = "Octet"
  /\ req_options = << >>
  /\ \/ /\ driver = "send_file"
        /\ pc = "sf_loop"
        /\ \E n \in WrapFileSizes :
             /\ file = FileBytes(n)
             /\ n_blocks = count_blocks(n, WrapBlockSize)
             /\ remainder = n % WrapBlockSize
        /\ blocknum = LastBlock
        /\ file_pos = (LastBlock - 1) * WrapBlockSize
        /\ file_buf = data_packet(loop_blocknum(LastBlock - 1),
                                  read_block(file, (LastBlock - 2) * WrapBlockSize,
                                             WrapBlockSize))
        /\ result = "Ok"
        /\ sent = << [dst |-> PeerTid, bytes |-> file_buf] >>
        /\ last_rx = RxDgram(PeerTid, MutableTftpAck_new(LastBlock - 1))
        /\ flushed = TRUE
     \/ /\ driver = "receive_file"
        /\ pc = "rf_loop"
        /\ file = << >>
        /\ n_blocks = 0
        /\ remainder = 0
        /\ blocknum = LastBlock - 1
        /\ file_pos = 0
        /\ file_buf = << >>
        /\ result = "none"
        /\ sent = << [dst |-> PeerTid, bytes |-> MutableTftpAck_new(LastBlock - 1)] >>
        /\ last_rx = RxDgram(PeerTid, data_packet(LastBlock - 1, Fill(WrapBlockSize, 120)))
        /\ flushed = FALSE
  /\ tx_count = 1
  /\ first_reply = RxTimeout
  /\ cancelled = FALSE
  /\ final = FALSE
  /\ attempts = 0
  /\ init_data = << >>
  /\ stream = << >>
  /\ n_timeouts = 0
  /\ writes = << >>
  /\ srv_options = TftpOptions_default
  /\ srv_pc = "idle"
  /\ srv_rx = RxTimeout
  /\ acc = AccIdle
  /\ rem = RemIdle
  /\ codec = CodecIdle

WrapNext ==
  \/ SfLoop
  \/ SarSend
  \/ SarRecv
  \/ RfLoop
  \/ RfRecv

WrapSpec == WrapInit /\ [][WrapNext]_vars

(* ------------------------ the codec on its own ------------------------- *)
\* Packet::as_bytes of the packet the builder of P's kind builds.
as_bytes(P) ==
  IF P.kind = "Req" THEN TftpReqBuilder_build(P.req, P.filename, P.opts)
  ELSE IF P.kind = "Data" THEN data_packet(P.blocknum, P.data)
  ELSE IF P.kind = "Ack" THEN MutableTftpAck_new(P.blocknum)
  ELSE IF P.kind = "OAck" THEN TftpOAckBuilder_build(P.opts)
  ELSE TftpErrorBuilder_build(P.code, P.msg)

\* TftpPacket::try_from_buf, then the accessors of the packet it gives:
\* kind, filename, mode and options of a request; blocknum and data of
\* DATA; blocknum of ACK; options of OACK.  A packet that does not parse,
\* or one with an accessor that fails, is no packet.
parsed_packet(buf) ==
  LET p      == try_from_buf(buf)
      pieces == split_nul(SubSeq(buf, 3, Len(buf)), << >>)
      mode   == IF Len(pieces) < 3 THEN "none"
                ELSE IF lower_key(pieces[2]) = TFTP_XFER_MODE_OCTET THEN "Octet"
                ELSE IF lower_key(pieces[2])
                          = << 110, 101, 116, 97, 115, 99, 105, 105 >>
                  THEN "NetAscii"
                ELSE "none"
      raw    == IF p.kind = "Req" THEN req_options_map(buf) ELSE oack_options(buf)
      opts   == parse_options(raw.map)
  IN  IF ~p.ok THEN NoPacket
      ELSE IF p.kind = "Data"
        THEN [NoPacket EXCEPT !.kind = "Data", !.blocknum = pkt_blocknum(buf),
                              !.data = pkt_data(buf)]
      ELSE IF p.kind = "Ack"
        THEN [NoPacket EXCEPT !.kind = "Ack", !.blocknum = pkt_blocknum(buf)]
      ELSE IF ~raw.ok \/ ~opts.ok THEN NoPacket
      ELSE IF p.kind = "OAck"
        THEN [NoPacket EXCEPT !.kind = "OAck", !.opts = opts.opts]
      ELSE IF Len(pieces) < 2 \/ ~is_utf8(pieces[1]) \/ mode = "none"
        THEN NoPacket
      ELSE [NoPacket EXCEPT !.kind = "Req", !.req = Opcode(buf),
                            !.filename = pieces[1], !.mode = mode,
                            !.opts = opts.opts]

\* Well-formed packets of every kind.  The file names of the requests:
\* "f", one that with mode octet fills the builder's buffer to its last
\* byte, and one that overfills it by one.
CodecPackets ==
  { [NoPacket EXCEPT !.kind = "Req", !.req = k, !.filename = f,
                     !.mode = "Octet", !.opts = o] :
      k \in {OPCODE_RRQ, OPCODE_WRQ},
      f \in {Filename, Fill(BUILDER_BUF_LEN - 9, 102),
              Fill(BUILDER_BUF_LEN - 8, 102)},
      o \in ReqOptionLists }
  \cup { [NoPacket EXCEPT !.kind = "Req", !.req = k, !.filename = Filename,
                          !.mode = "Octet", !.opts = o] :
           k \in {OPCODE_RRQ, OPCODE_WRQ}, o \in NegOptionLists }
  \cup { [NoPacket EXCEPT !.kind = "Data", !.blocknum = b, !.data = d] :
           b \in {0, 1, 255, 256, 65535},
           d \in {<< >>, << 0 >>, << 120, 0, 121 >>, Fill(DEFAULT_BLOCK_SIZE, 120)} }
  \cup { [NoPacket EXCEPT !.kind = "Ack", !.blocknum = b] :
           b \in {0, 1, 255, 256, 65535} }
  \cup { [NoPacket EXCEPT !.kind = "OAck", !.opts = o] :
           o \in NegOptionLists \ {<< >>} }
  \cup { [NoPacket EXCEPT !.kind = "Error", !.code = c, !.msg = m] :
           c \in 0..8, m \in {<< >>, NetAsciiMsg} }

\* Option parts of packets as a peer may write them: up to two pairs of
\* a key (the three known ones, "BLKSIZE", "windowsize") and a value (a
\* number, no number, nothing, numbers beyond u8, u16 and u32, a signed
\* number).
RawOptionBufs ==
  LET keys == {OPT_BLOCKSIZE_IDENT, OPT_TIMEOUT_IDENT, OPT_TRANSFERSIZE_IDENT,
               BLKSIZE_UPPER,
               << 119, 105, 110, 100, 111, 119, 115, 105, 122, 101 >>}
      vals == {<< 56 >>, << 48 >>, << 120 >>, << >>, << 43, 53 >>,
               << 50, 53, 54 >>, << 54, 53, 53, 51, 54 >>,
               << 52, 50, 57, 52, 57, 54, 55, 50, 57, 54 >>}
      pair == { k \o << 0 >> \o v \o << 0 >> : k \in keys, v \in vals }
  IN  { to_be_bytes(OPCODE_OACK) \o p :
          p \in {<< >>} \cup pair \cup { a \o b : a \in pair, b \in pair } }

\* A packet is handed to the builder of its kind, or the option part of
\* a received packet to the option parser.
CodecInit ==
  /\ codec \in { [CodecIdle EXCEPT !.stage = "new", !.pkt = P] : P \in CodecPackets }
                \cup { [CodecIdle EXCEPT !.stage = "raw", !.buf = b] :
                         b \in RawOptionBufs }
  /\ peer = NoAddr
  /\ options = TftpOptions_default
  /\ tx_mode = "Octet"
  /\ req_options = << >>
  /\ driver = "codec"
  /\ pc = "idle"
  /\ file = << >>
  /\ first_reply = RxTimeout
  /\ cancelled = FALSE
  /\ file_pos = 0
  /\ n_blocks = 0
  /\ remainder = 0
  /\ blocknum = 0
  /\ file_buf = << >>
  /\ final = FALSE
  /\ attempts = 0
  /\ result = "none"
  /\ init_data = << >>
  /\ stream = << >>
  /\ sent = << >>
  /\ tx_count = 0
  /\ last_rx = RxTimeout
  /\ n_timeouts = 0
  /\ writes = << >>
  /\ flushed = TRUE
  /\ srv_options = TftpOptions_default
  /\ srv_pc = "idle"
  /\ srv_rx = RxTimeout
  /\ acc = AccIdle
  /\ rem = RemIdle

\* The builder writes the packet into its buffer and the bytes are
\* parsed.
CodecApply ==
  /\ codec.stage = "new"
  /\ codec' = [codec EXCEPT !.stage = "parsed",
                            !.buf = as_bytes(codec.pkt),
                            !.out = parsed_packet(as_bytes(codec.pkt))]
  /\ UNCHANGED << pc, conn_vars, cancelled, send_vars, blocknum, result,
                  recv_vars, sent, tx_count, last_rx, n_timeouts,
                  client_vars, srv_vars, acc, rem >>

\* The key/value pairs of the buffer are collected into a map and
\* OptionNegotiation::parse_options builds the option list from it.
ParseOptions ==
  /\ codec.stage = "raw"
  /\ codec' = LET res == parse_options(oack_options(codec.buf).map)
               IN  [codec EXCEPT !.stage = "options",
                                 !.out = [NoPacket EXCEPT
                                            !.kind = IF res.ok THEN "OAck" ELSE "none",
                                            !.opts = res.opts]]
  /\ UNCHANGED << pc, conn_vars, cancelled, send_vars, blocknum, result,
                  recv_vars, sent, tx_count, last_rx, n_timeouts,
                  client_vars, srv_vars, acc, rem >>

CodecSpec == CodecInit /\ [][CodecApply \/ ParseOptions]_vars

(* --------------------- the acceptor and its tasks --------------------- *)
\* The clients that send the server a request.
AccClients == {ClientAddr, [ip |-> "client2", port |-> 40001]}

\* Mutant of task_port: the tasks use the port of the listening socket.
task_port_shared(i) == TFTP_LISTEN_PORT

\* UdpSocket::bind(SocketAddr::new(ip, 0)): the system picks a port no
\* other socket is bound to.
task_port(i) == 50000 + i

\* Datagrams on their way to the server: from a client, to the listening
\* port or to the port of a task; requests and ACKs.
AccDatagrams ==
  { [src |-> c, dport |-> p, bytes |-> b] :
      c \in AccClients,
      p \in {TFTP_LISTEN_PORT} \cup { task_port(i) : i \in 1..Cardinality(AccClients) },
      b \in { TftpReqBuilder_build(OPCODE_RRQ, Filename, o) :
                o \in {<< >>, << [kind |-> "Blocksize", val |-> 2] >>} }
            \cup { TftpReqBuilder_build(OPCODE_WRQ, Filename, << >>),
                   MutableTftpAck_new(0), MutableTftpAck_new(1) } }

\* What a UDP socket bound to `port`, connected to `to` unless that is
\* NoAddr, takes from the network.
socket_receives(port, to, d) ==
  /\ d.dport = port
  /\ to = NoAddr \/ d.src = to

\* A task as tokio::spawn creates it: the datagram and its sender moved
\* in, no socket bound yet.
NewTask(d) ==
  [pc |-> "spawned", client |-> d.src, req |-> d.bytes, port |-> 0,
   options |-> TftpOptions_default, blocknum |-> 0, attempts |-> 0,
   pos |-> 0, tx |-> << >>]

\* server_task bound to the listening port, before its loop.
AccInit ==
  /\ acc = [AccIdle EXCEPT !.pc = "head"]
  /\ rem = RemIdle
  /\ codec = CodecIdle
  /\ peer = NoAddr
  /\ options = TftpOptions_default
  /\ tx_mode = "Octet"
  /\ req_options = << >>
  /\ driver = "server"
  /\ pc = "idle"
  /\ file = << >>
  /\ first_reply = RxTimeout
  /\ cancelled = FALSE
  /\ file_pos = 0
  /\ n_blocks = 0
  /\ remainder = 0
  /\ blocknum = 0
  /\ file_buf = << >>
  /\ final = FALSE
  /\ attempts = 0
  /\ result = "none"
  /\ init_data = << >>
  /\ stream = << >>
  /\ sent = << >>
  /\ tx_count = 0
  /\ last_rx = RxTimeout
  /\ n_timeouts = 0
  /\ writes = << >>
  /\ flushed = TRUE
  /\ srv_options = TftpOptions_default
  /\ srv_pc = "idle"
  /\ srv_rx = RxTimeout

\* What the steps of the acceptor and its tasks leave alone.
AccFrame ==
  UNCHANGED << pc, conn_vars, cancelled, send_vars, blocknum, result,
               recv_vars, sent, tx_count, last_rx, n_timeouts, client_vars,
               srv_vars, codec, rem >>

\* Mutant of AcceptHead: the token is not looked at.
AcceptHead_blind ==
  /\ acc.pc = "head"
  /\ acc' = [acc EXCEPT !.pc = "recv", !.who = 0, !.rx = << >>]
  /\ AccFrame

\* server_task: the head of the loop.  A cancelled token ends the loop
\* and the function returns.
AcceptHead ==
  /\ acc.pc = "head"
  /\ acc' = [acc EXCEPT !.pc = IF cancelled THEN "returned" ELSE "recv",
                        !.who = 0, !.rx = << >>]
  /\ AccFrame

\* server_task: recv_from on the listening socket returns, after at most
\* the read timeout of 500 ms: with a datagram, for which a task is
\* spawned, with the timeout, or with another error, which is logged.
\* Each client sends one request.
AcceptRecv ==
  /\ acc.pc = "recv"
  /\ \/ acc' = [acc EXCEPT !.pc = "head", !.who = 0, !.rx = << >>]
     \/ \E d \in AccDatagrams :
          /\ socket_receives(TFTP_LISTEN_PORT, NoAddr, d)
          /\ \A i \in 1..Len(acc.tasks) : acc.tasks[i].client # d.src
          /\ acc' = [acc EXCEPT !.pc = "head", !.who = 0, !.rx = << d >>,
                                !.tasks = Append(acc.tasks, NewTask(d))]
  /\ AccFrame

\* The spawned task up to its first wait: the datagram is parsed as a
\* request, handle_request binds a socket of its own and connects it to
\* the client, opens the file, negotiates the options and, for a read
\* request without options, serve_file is entered.
TaskStart(i) ==
  /\ acc.tasks[i].pc = "spawned"
  /\ LET t    == acc.tasks[i]
         bound == [t EXCEPT !.port = task_port(i)]
         raw  == req_options_map(Truncate(t.req, SERVER_BUF_LEN))
         neg  == parse_options(raw.map)
         from(b) == << [sport |-> task_port(i), dst |-> t.client, bytes |-> b] >>
     IN  \E e \in {"Ok", "NotFound"} :
           acc' = [acc EXCEPT !.who = i, !.rx = << >>, !.tasks[i] =
             IF Opcode(t.req) \notin {OPCODE_RRQ, OPCODE_WRQ} \/ Len(t.req) < 6
               THEN [t EXCEPT !.pc = "rejected"]
             ELSE IF e # "Ok"
               THEN [bound EXCEPT !.pc = "done",
                       !.tx = from(TftpErrorBuilder_build(open_error_code(e), << >>))]
             ELSE IF ~raw.ok \/ ~neg.ok
               THEN [bound EXCEPT !.pc = "panic"]
             ELSE [bound EXCEPT
                     !.options = merge_from(t.options, neg.opts),
                     !.tx = IF neg.opts # << >>
                              THEN from(build_oack_packet(neg.opts)) ELSE << >>,
                     !.blocknum = 1,
                     !.pc = IF Opcode(t.req) = OPCODE_WRQ THEN "done"
                            ELSE IF neg.opts # << >> THEN "await_ack0"
                            ELSE "send"]]
  /\ AccFrame

\* serve_file: the head of an iteration of its loop and the first attempt
\* of send_and_wait_for_reply for the block; after the last block the
\* function returns.
TaskSend(i) ==
  /\ acc.tasks[i].pc = "send"
  /\ LET t  == acc.tasks[i]
         bs == t.options.blocksize
     IN  acc' = [acc EXCEPT !.who = i, !.rx = << >>, !.tasks[i] =
           IF t.blocknum > count_blocks(Len(SrvFile), bs)
                + (IF needs_final_block(Len(SrvFile) % bs) THEN 1 ELSE 0)
             THEN [t EXCEPT !.pc = "done"]
           ELSE IF cancelled /\ t.blocknum <= count_blocks(Len(SrvFile), bs)
             THEN [t EXCEPT !.pc = "done"]
           ELSE [t EXCEPT
                   !.pc = "recv",
                   !.attempts = 0,
                   !.pos = t.pos + Len(read_block(SrvFile, t.pos, bs)),
                   !.tx = << [sport |-> t.port, dst |-> t.client,
                              bytes |-> data_packet(t.blocknum,
                                          read_block(SrvFile, t.pos, bs))] >>]]
  /\ AccFrame

\* The task's receive on its own socket returns.  After the OACK only
\* ACK 0 lets the transfer begin.  In send_and_wait_for_reply an ACK ends
\* the wait and the next block follows; anything else is counted and the
\* packet sent again, until the retries are used up or the token is
\* cancelled.
TaskRecv(i) ==
  /\ acc.tasks[i].pc \in {"await_ack0", "recv"}
  /\ LET t == acc.tasks[i]
         judged(r, rx) ==
           acc' = [acc EXCEPT !.who = i, !.rx = rx, !.tasks[i] =
             IF t.pc = "await_ack0"
               THEN [t EXCEPT !.pc = IF is_ack0([r EXCEPT !.src = ClientAddr])
                                       THEN "send" ELSE "panic"]
             ELSE IF receive_packet_from(ACK_BUF_LEN, "Ack", r).ok
               THEN [t EXCEPT !.pc = "send", !.blocknum = t.blocknum + 1]
             ELSE IF retries_exhausted(t.attempts) \/ cancelled
               THEN [t EXCEPT !.pc = "done"]
             ELSE [t EXCEPT !.attempts = t.attempts + 1]]
     IN  \/ judged(RxTimeout, << >>)
         \/ \E d \in AccDatagrams :
              /\ socket_receives(t.port, t.client, d)
              /\ judged(RxDgram(d.src, d.bytes), << d >>)
  /\ AccFrame

\* The acceptor, the tasks it has spawned, and the signal handler.
AccNext ==
  \/ AcceptHead
  \/ AcceptRecv
  \/ \E i \in 1..Len(acc.tasks) : TaskStart(i)
  \/ \E i \in 1..Len(acc.tasks) : TaskSend(i)
  \/ \E i \in 1..Len(acc.tasks) : TaskRecv(i)
  \/ Cancel

AccSpec == AccInit /\ [][AccNext]_vars

\* The acceptor runs on: its loop contains no wait but recv_from, which
\* returns after the read timeout at the latest.
AccLiveSpec == AccSpec /\ WF_vars(AcceptHead) /\ WF_vars(AcceptRecv)

(* ------------------- a sender and a receiver, coupled ------------------ *)
\* Most deliveries of a datagram that was already delivered or dropped.
MaxStale == 1

\* The remote receive_file when it is called: connected to the sender,
\* no first block handed in, nothing written; no datagram in flight.
RemStart ==
  [pc |-> "rf_recv", blocknum |-> 0, stream |-> << >>, writes |-> << >>,
   result |-> "none", out |-> << >>, acks |-> {}, seen |-> << 0, 0 >>,
   lost_acks |-> 0, lost_data |-> 0, stale |-> 0]

\* The sender's latest hand-over to its socket, and whether the remote
\* end has yet to see it.
TxSeq == << Len(sent), tx_count >>
InFlight == sent # << >> /\ TxSeq # rem.seen

\* Mutant of in_sequence: every DATA packet is taken for the next block.
in_sequence_any(data_pkt, b) == TRUE

\* receive_file: `pkt.blocknum() != blocknum.wrapping_add(1)` is false.
in_sequence(data_pkt, b) == pkt_blocknum(data_pkt) = expected_block(b)

\* The remote end hands p to its socket; a packet still on its way to
\* the sender is overtaken and counts as lost.  The counts of lost
\* datagrams tell 0, 1 and more apart.
rem_send(rm, p) ==
  [rm EXCEPT !.out = << p >>, !.acks = @ \cup {p},
             !.lost_acks = Min(@ + (IF rm.out # << >> THEN 1 ELSE 0), 2)]

\* One iteration of the loop of the remote receive_file with block size
\* bs whose receive returns r: an error ends the transfer, a DATA packet
\* out of sequence is skipped, the expected one is written and
\* acknowledged, and a short one ends the loop.
rem_receive(rm, bs, r, write_ok) ==
  LET res == receive_packet(4 + bs, "Data", r, ClientAddr)
  IN  IF ~res.ok
        THEN [rm EXCEPT !.pc = "closed", !.result = res.err]
      ELSE IF ~in_sequence(res.pkt, rm.blocknum)
        THEN rm
      ELSE IF ~write_ok
        THEN [rem_send(rm, TftpErrorBuilder_build(ERR_STORAGEERROR, << >>))
                EXCEPT !.pc = "closed", !.result = "StorageError"]
      ELSE [rem_send(rm, MutableTftpAck_new(wrapping_add1(rm.blocknum)))
              EXCEPT !.stream = @ \o pkt_data(res.pkt),
                     !.writes = Append(@, pkt_blocknum(res.pkt)),
                     !.blocknum = wrapping_add1(@),
                     !.pc = IF is_last_block(res.pkt, bs)
                              THEN "done" ELSE "rf_recv",
                     !.result = IF is_last_block(res.pkt, bs)
                                  THEN "Ok" ELSE @]

\* send_file on a socket connected to the remote end, the remote
\* receive_file waiting for the first block.
E2eInit ==
  /\ peer = PeerTid
  /\ req_options = << >>
  /\ \E bs \in BlockSizes :
       /\ options = [TftpOptions_default EXCEPT !.blocksize = bs]
       /\ \E n \in FileSizes(bs) : file = FileBytes(n)
  /\ driver = "send_file"
  /\ pc = "sf_start"
  /\ tx_mode = "Octet"
  /\ first_reply = RxTimeout
  /\ cancelled = FALSE
  /\ file_pos = 0
  /\ n_blocks = 0
  /\ remainder = 0
  /\ blocknum = 0
  /\ file_buf = << >>
  /\ final = FALSE
  /\ attempts = 0
  /\ result = "none"
  /\ init_data = << >>
  /\ stream = << >>
  /\ sent = << >>
  /\ tx_count = 0
  /\ last_rx = RxTimeout
  /\ n_timeouts = 0
  /\ writes = << >>
  /\ flushed = TRUE
  /\ srv_options = TftpOptions_default
  /\ srv_pc = "idle"
  /\ srv_rx = RxTimeout
  /\ acc = AccIdle
  /\ rem = RemStart
  /\ codec = CodecIdle

\* The sender's receive in send_and_receive_ack returns: the packet on
\* its way from the remote end arrives; or nothing arrives in time, and
\* what was on its way in either direction is lost; or a packet the
\* remote end sent earlier arrives once more.
E2eSenderRecv ==
  /\ UNCHANGED << client_vars, srv_vars, codec, acc >>
  /\ pc = "sar_recv"
  /\ \/ /\ rem.out # << >>
        /\ SarReply(RxDgram(peer, rem.out[1]))
        /\ rem' = [rem EXCEPT !.out = << >>]
     \/ /\ SarReply(RxTimeout)
        /\ rem' = [rem EXCEPT
                     !.out = << >>,
                     !.lost_acks =
                        Min(@ + (IF rem.out # << >> THEN 1 ELSE 0), 2),
                     !.lost_data =
                        Min(@ + (IF InFlight /\ rem.pc = "rf_recv"
                                     THEN 1 ELSE 0), 2),
                     !.seen = TxSeq]
     \/ /\ rem.stale < MaxStale
        /\ \E a \in rem.acks :
             /\ SarReply(RxDgram(peer, a))
             /\ rem' = [rem EXCEPT !.stale = @ + 1]

\* The receive of the remote receive_file returns: the sender's latest
\* packet arrives; or nothing is on its way and the receive times out;
\* or a packet the sender sent earlier arrives once more.
RemRecv ==
  /\ rem.pc = "rf_recv"
  /\ \/ /\ InFlight
        /\ \E write_ok \in BOOLEAN :
             rem' = [rem_receive(rem, opt_blocksize,
                                 RxDgram(ClientAddr, sent[Len(sent)].bytes),
                                 write_ok)
                       EXCEPT !.seen = TxSeq]
     \/ /\ ~InFlight
        /\ rem' = rem_receive(rem, opt_blocksize, RxTimeout, TRUE)
     \/ /\ rem.stale < MaxStale
        /\ \E i \in 1..Len(sent) :
             rem' = [rem_receive(rem, opt_blocksize,
                                 RxDgram(ClientAddr, sent[i].bytes), TRUE)
                       EXCEPT !.stale = @ + 1]
  /\ UNCHANGED << pc, conn_vars, cancelled, send_vars, blocknum, result,
                  recv_vars, sent, tx_count, last_rx, n_timeouts,
                  client_vars, srv_vars, codec, acc >>

E2eNext ==
  \/ SfStart
  \/ SfLoop
  \/ SarSend
  \/ E2eSenderRecv
  \/ RemRecv
  \/ Cancel

E2eSpec == E2eInit /\ [][E2eNext]_vars

(* ====================================================================== *)
(* Properties                                                             *)
(* ====================================================================== *)
IsData(e) == Opcode(e.bytes) = OPCODE_DATA

\* The DATA packets handed to the socket, in order (a retransmission of
\* the packet just sent is not listed again), and their block numbers.
DataSent == SelectSeq(sent, IsData)
DataBlocks == [i \in 1..Len(DataSent) |-> pkt_blocknum(DataSent[i].bytes)]

\* send_file is past its netascii check.
InSend == file_buf # << >>

\* r is a datagram from the connected peer that is an ACK of block n.
PeerAck(r, n) ==
  /\ r.kind = "dgram"
  /\ r.src = peer
  /\ Len(r.bytes) >= 4
  /\ Opcode(r.bytes) = OPCODE_ACK
  /\ pkt_blocknum(r.bytes) = n

\* r is a datagram from another source than the connected peer.
ForeignRx(r) == r.kind = "dgram" /\ peer # NoAddr /\ r.src # peer

\* This step is the return of a socket receive inside a transfer loop.
RecvStep == pc \in {"sar_recv", "rf_recv"} /\ pc' # pc

\* This step hands a datagram to the socket.
TransmitStep == sent' # sent \/ tx_count' # tx_count

\* C1: stop-and-wait.  When a DATA packet with a new block number has
\* just been sent for the first time, the most recent receive returned
\* an ACK from the connected peer for the previous block; and when
\* send_and_receive_ack has returned success, the most recent receive
\* returned an ACK from the peer for the block just sent.
C1_StopAndWait ==
  /\ (pc = "sar_recv" /\ tx_count = 1 /\ Len(DataSent) >= 2)
       => PeerAck(last_rx, DataBlocks[Len(DataSent) - 1])
  /\ (InSend /\ result = "Ok" /\ pc \in {"sf_loop", "done"})
       => PeerAck(last_rx, DataBlocks[Len(DataSent)])

\* C1 witness: a second block is on the wire, after an ACK of another
\* block number had been turned down earlier in some run or not.
C1_Witness ==
  /\ pc = "sar_recv"
  /\ tx_count = 1
  /\ Len(DataSent) >= 2
  /\ PeerAck(last_rx, 1)

\* C2 (as claimed): with only timeouts since the block was built, the
\* block is handed to the socket at most 5 times, and the transfer has
\* failed with Timeout exactly when it was sent 5 times.
C2_RetransmissionBound ==
  (InSend /\ ~cancelled /\ n_timeouts >= tx_count - 1 /\ sent # << >>
     /\ IsData(sent[Len(sent)]))
    => /\ tx_count <= 5
       /\ (pc = "closed" /\ result = "Timeout") => tx_count = 5

\* C3 (as claimed): the blocks written to the stream carry strictly
\* increasing block numbers: every block is written once, in order.
C3_AtMostOnce ==
  \A i, j \in 1..Len(writes) : i < j => writes[i] < writes[j]

\* C4 (as claimed): a datagram from another source than the connected
\* peer leaves the transfer as it was: nothing written, block counter
\* and retry counter unchanged, nothing sent to the peer, not closed.
C4_TidEnforcement ==
  [][ (RecvStep /\ ForeignRx(last_rx'))
        => /\ pc' # "closed"
           /\ stream' = stream
           /\ blocknum' = blocknum
           /\ attempts' = attempts
           /\ TransmitStep => sent'[Len(sent')].dst # peer ]_vars

\* C5 (as claimed): a datagram from another source than the connected
\* peer is answered by an ERROR packet with code UnknownTid sent to that
\* source.
C5_UnknownTidError ==
  [][ (RecvStep /\ ForeignRx(last_rx'))
        => /\ TransmitStep
           /\ sent'[Len(sent')].dst = last_rx'.src
           /\ Opcode(sent'[Len(sent')].bytes) = OPCODE_ERROR
           /\ pkt_blocknum(sent'[Len(sent')].bytes) = ERR_UNKNOWNTID ]_vars

\* C6: the block numbers of the DATA packets sent are 1, 2, 3, ...
\* (modulo 2^16): the i-th distinct block sent carries number i.
C6_BlockMonotonic ==
  \A i \in 1..Len(DataBlocks) : DataBlocks[i] = U16(i)

\* C6 witness: three blocks were sent, the second one retransmitted.
C6_Witness ==
  /\ Len(DataBlocks) >= 3
  /\ tx_count >= 2
  /\ pc = "sar_recv"

\* C7: a file whose size is a multiple of the block size is complete
\* only after one more DATA packet without payload, numbered one past
\* the last full block, was sent and acknowledged by the peer.
C7_FinalEmptyBlock ==
  (InSend /\ pc = "done" /\ Len(file) % opt_blocksize = 0)
    => LET full == Len(file) \div opt_blocksize
       IN  /\ Len(DataSent) = full + 1
           /\ \A i \in 1..full :
                /\ DataBlocks[i] = i
                /\ pkt_data_len(DataSent[i].bytes) = opt_blocksize
           /\ DataSent[full + 1].bytes = data_packet(full + 1, << >>)
           /\ PeerAck(last_rx, full + 1)

\* C7 witness: block size 2, file "ab": DATA 1 "ab", DATA 2 "", done.
C7_Witness ==
  /\ pc = "done"
  /\ opt_blocksize = 2
  /\ file = << 97, 98 >>
  /\ Len(DataSent) = 2
  /\ DataSent[1].bytes = << 0, 3, 0, 1, 97, 98 >>
  /\ DataSent[2].bytes = << 0, 3, 0, 2 >>

\* C8 (as claimed): a DATA packet from the peer carrying the block number
\* just acknowledged is acknowledged again and nothing is written.
C8_DuplicateData ==
  [][ ( /\ pc = "rf_recv" /\ pc' # pc
        /\ writes # << >>
        /\ last_rx'.kind = "dgram" /\ last_rx'.src = peer
        /\ Len(last_rx'.bytes) >= 4
        /\ Opcode(last_rx'.bytes) = OPCODE_DATA
        /\ pkt_blocknum(last_rx'.bytes) = blocknum )
        => /\ TransmitStep
           /\ sent'[Len(sent')] =
                [dst |-> peer, bytes |-> MutableTftpAck_new(blocknum)]
           /\ stream' = stream ]_vars

\* C9 (as claimed): while block N is outstanding, an ACK from the peer for
\* the block before is dropped (transfer not closed, retry counter and
\* block counter unchanged); an ACK for N moves on to the next block with
\* the retry counter at zero.
C9_DuplicateAck ==
  [][ (pc = "sar_recv" /\ pc' # pc)
        => /\ PeerAck(last_rx', U16(pkt_blocknum(file_buf) + 65535))
               => /\ pc' # "closed"
                  /\ attempts' = attempts
                  /\ blocknum' = blocknum
           /\ PeerAck(last_rx', pkt_blocknum(file_buf))
               => /\ pc' \in {"sf_loop", "done"}
                  /\ final \/ blocknum' = blocknum + 1 ]_vars

\* The first reply came from the server's host and is DATA 1 (get) or
\* ACK 0 (put): the server did not answer with an OACK.
IsFallbackReply ==
  /\ first_reply.kind = "dgram"
  /\ first_reply.src.ip = ServerAddr.ip
  /\ Len(first_reply.bytes) >= 4
  /\ \/ /\ driver = "get"
        /\ Opcode(first_reply.bytes) = OPCODE_DATA
        /\ pkt_blocknum(first_reply.bytes) = 1
     \/ /\ driver = "put"
        /\ Opcode(first_reply.bytes) = OPCODE_ACK
        /\ pkt_blocknum(first_reply.bytes) = 0

\* C10: negotiation fallback.  After a request with options was answered
\* by DATA 1 (get) or ACK 0 (put), the client has entered the transfer,
\* block size and timeout are the defaults 512 and 5, and for get the
\* DATA packet is the first block: its payload opens the stream, ACK 1
\* answers it, and it ends the transfer only if shorter than 512 bytes.
C10_NegotiationFallback ==
  (req_options # << >> /\ IsFallbackReply)
    => /\ pc \notin {"get_wait", "put_wait"}
       /\ result \notin {"UnknownPeer", "UnexpectedFirstReply"}
       /\ options.blocksize = DEFAULT_BLOCK_SIZE
       /\ options.timeout = DEFAULT_TIMEOUT_SECS
       /\ driver = "get"
            => LET first == Truncate(first_reply.bytes, 4 + DEFAULT_BLOCK_SIZE)
               IN  /\ init_data = first
                   /\ writes # << >>
                        => /\ writes[1] = 1
                           /\ SubSeq(stream, 1, pkt_data_len(first)) = pkt_data(first)
                           /\ sent[2] = [dst |-> peer, bytes |-> MutableTftpAck_new(1)]
                           /\ (Len(writes) = 1 /\ pc = "done")
                                => pkt_data_len(first) < DEFAULT_BLOCK_SIZE

\* C10 witness: an RRQ asking for blksize 2 was answered by DATA 1 with
\* 512 bytes; they are written and acknowledged, the transfer goes on.
C10_Witness ==
  /\ driver = "get"
  /\ req_options # << >>
  /\ IsFallbackReply
  /\ pc = "rf_loop"
  /\ Len(stream) = DEFAULT_BLOCK_SIZE
  /\ writes = << 1 >>

\* The bytes of the first reply as TftpClient::get / put read them into
\* their receive buffer.
FirstReplyBuf ==
  Truncate(first_reply.bytes,
           IF driver = "get" THEN 4 + DEFAULT_BLOCK_SIZE ELSE PUT_BUF_LEN)

\* The first reply came from the server's host and parses as an OACK.
IsOAckReply ==
  /\ driver \in {"get", "put"}
  /\ first_reply.kind = "dgram"
  /\ first_reply.src.ip = ServerAddr.ip
  /\ Len(first_reply.bytes) >= 2
  /\ try_from_buf(FirstReplyBuf).kind = "OAck"

\* C11 (as claimed): after a first reply that is an OACK, DATA 1 (get) or
\* ACK 0 (put) from the server's host, the socket is connected to the
\* source address of that reply: the server's IP and the reply's port.
C11_PeerLocking ==
  (driver \in {"get", "put"} /\ (IsOAckReply \/ IsFallbackReply))
    => peer = first_reply.src

\* C12: a first reply from another IP than the server's is not accepted:
\* the socket stays unconnected, the options stay the defaults, nothing
\* is written, and the request to the server is all that was ever sent.
C12_FirstReplySourceValidation ==
  (driver \in {"get", "put"} /\ first_reply.kind = "dgram"
     /\ first_reply.src.ip # ServerAddr.ip)
    => /\ pc = "closed"
       /\ peer = NoAddr
       /\ options = TftpOptions_default
       /\ stream = << >>
       /\ writes = << >>
       /\ Len(sent) = 1
       /\ sent[1].dst = ServerAddr
       /\ tx_count = 1

\* C12 witness: an OACK offering blksize 2 arrived from another host and
\* the client gave up.
C12_Witness ==
  /\ driver = "get"
  /\ first_reply.kind = "dgram"
  /\ first_reply.src = StrayHost
  /\ Opcode(first_reply.bytes) = OPCODE_OACK
  /\ pc = "closed"
  /\ result = "UnknownPeer"

\* The option keys of the request.
RequestedKeys ==
  { (IF req_options[i].kind = "Blocksize" THEN OPT_BLOCKSIZE_IDENT
     ELSE IF req_options[i].kind = "Timeout" THEN OPT_TIMEOUT_IDENT
     ELSE OPT_TRANSFERSIZE_IDENT) : i \in 1..Len(req_options) }

\* The first reply is an OACK naming blksize, timeout or tsize although
\* the request did not.
HasUnrequestedOption ==
  /\ IsOAckReply
  /\ oack_options(FirstReplyBuf).ok
  /\ \E k \in {OPT_BLOCKSIZE_IDENT, OPT_TIMEOUT_IDENT, OPT_TRANSFERSIZE_IDENT} :
       /\ k \in DOMAIN oack_options(FirstReplyBuf).map
       /\ k \notin RequestedKeys

\* C13 (as claimed): an OACK with an option the request did not name ends
\* the transfer with an ERROR packet of code InvalidOption; the options
\* stay the defaults and neither ACK 0 nor DATA follows.
C13_UnrequestedOption ==
  HasUnrequestedOption
    => /\ options = TftpOptions_default
       /\ Len(sent) = 2
       /\ Opcode(sent[2].bytes) = OPCODE_ERROR
       /\ pkt_blocknum(sent[2].bytes) = ERR_INVALIDOPTION

\* The options a key/value map of an OACK stands for: the defaults, with
\* the value of every key it names.
Overridden(m) ==
  [blocksize |-> IF OPT_BLOCKSIZE_IDENT \in DOMAIN m
                   THEN digits_value(m[OPT_BLOCKSIZE_IDENT], 0)
                   ELSE DEFAULT_BLOCK_SIZE,
   timeout |-> IF OPT_TIMEOUT_IDENT \in DOMAIN m
                 THEN digits_value(m[OPT_TIMEOUT_IDENT], 0)
                 ELSE DEFAULT_TIMEOUT_SECS,
   transfer_size |-> IF OPT_TRANSFERSIZE_IDENT \in DOMAIN m
                       THEN digits_value(m[OPT_TRANSFERSIZE_IDENT], 0)
                       ELSE 0]

LoweredMap(m) ==
  [k \in { lower_key(x) : x \in DOMAIN m } |->
     m[CHOOSE x \in DOMAIN m : lower_key(x) = k]]

\* The first reply is an OACK from the server's host whose known options,
\* in whatever case their keys are written, all carry numbers.
OAckAccepted ==
  /\ IsOAckReply
  /\ oack_options(FirstReplyBuf).ok
  /\ parse_options(LoweredMap(oack_options(FirstReplyBuf).map)).ok

\* C15 (as claimed): the client's block size and timeout are 512 and 5
\* until an OACK is accepted, and from then on, so before the first DATA
\* block is sent or received, the values that OACK carries.
C15_EffectiveOptions ==
  driver \in {"get", "put"}
    => IF OAckAccepted
         THEN /\ options.blocksize =
                   Overridden(LoweredMap(oack_options(FirstReplyBuf).map)).blocksize
              /\ options.timeout =
                   Overridden(LoweredMap(oack_options(FirstReplyBuf).map)).timeout
         ELSE /\ options.blocksize = DEFAULT_BLOCK_SIZE
              /\ options.timeout = DEFAULT_TIMEOUT_SECS

\* C16 (as claimed): the client's effective block size lies in 8..65464
\* and its timeout in 1..255 seconds, whatever the OACK offered.
C16_OptionBounds ==
  driver \in {"get", "put"}
    => /\ options.blocksize \in 8..65464
       /\ options.timeout \in 1..255

\* The task stands at one of the three checks of the cancellation token:
\* the head of send_and_receive_ack's loop, of receive_file's loop, or of
\* an iteration of send_file's block loop.
AtCancellationCheck ==
  \/ pc \in {"sar_head", "rf_loop"}
  \/ pc = "sf_loop" /\ blocknum <= n_blocks

\* C17 (as claimed): a transfer that finds the cancellation token set
\* ends with the outcome Cancelled, not Timeout or another error, and
\* sends nothing to the peer.
C17_CancellationOutcome ==
  [][ (cancelled /\ AtCancellationCheck)
        => /\ pc' = "closed"
           /\ result' = "Cancelled"
           /\ ~TransmitStep ]_vars

\* C18: send_file on a connection in netascii mode hands exactly one
\* packet to the socket, an ERROR packet for the peer that begins with
\* opcode 5, code 4 and the message "NetAscii mode not supported" with
\* its NUL, and ends: no DATA packet is built or sent and nothing is
\* read from the file.
C18_NetasciiRejection ==
  (driver = "send_file" /\ tx_mode = "NetAscii" /\ pc # "sf_start")
    => /\ pc = "closed"
       /\ Len(sent) = 1
       /\ tx_count = 1
       /\ sent[1].dst = peer
       /\ Len(sent[1].bytes) > 4 + Len(NetAsciiMsg)
       /\ SubSeq(sent[1].bytes, 1, 5 + Len(NetAsciiMsg))
            = << 0, 5, 0, 4 >> \o NetAsciiMsg \o << 0 >>
       /\ file_pos = 0
       /\ file_buf = << >>

\* C18 witness: a file of several blocks was to be sent in netascii mode
\* and the transfer ended with the ERROR packet.
C18_Witness ==
  /\ driver = "send_file"
  /\ tx_mode = "NetAscii"
  /\ Len(file) > opt_blocksize
  /\ pc = "closed"
  /\ Len(sent) = 1
  /\ Opcode(sent[1].bytes) = OPCODE_ERROR

C20_WrapAround ==
  /\ pc # "panic"
  /\ \A i \in 1..(Len(DataBlocks) - 1) :
       DataBlocks[i + 1] = wrapping_add1(DataBlocks[i])
  /\ \A i \in 1..(Len(writes) - 1) :
       writes[i + 1] = wrapping_add1(writes[i])
  /\ (driver = "receive_file" /\ writes # << >>)
       => /\ writes[1] = LastBlock
          /\ blocknum = writes[Len(writes)]
  /\ (driver = "send_file" /\ pc = "done")
       => /\ n_blocks = LastBlock => DataBlocks[Len(DataBlocks)] = 0
          /\ n_blocks = LastBlock + 1 => DataBlocks[Len(DataBlocks)] = 1

\* C21 (as claimed): the bytes built from a well-formed packet of any
\* kind parse, with the generic parser, to a packet of the same kind with
\* the same fields, the options compared as a set.
C21_RoundTrip ==
  codec.stage = "parsed"
    => /\ codec.out.kind = codec.pkt.kind
       /\ [codec.out EXCEPT !.opts = << >>] = [codec.pkt EXCEPT !.opts = << >>]
       /\ { codec.out.opts[i] : i \in 1..Len(codec.out.opts) }
            = { codec.pkt.opts[i] : i \in 1..Len(codec.pkt.opts) }

C23_ServerHandshake ==
  driver = "get"
    => /\ (OAckSent /\ \E i \in 1..Len(sent) :
                         sent[i].dst = ClientAddr /\ IsData(sent[i]))
            => /\ srv_rx = RxDgram(ClientAddr, MutableTftpAck_new(0))
               /\ Len(sent) >= 4
               /\ sent[3] = [dst |-> PeerTid, bytes |-> MutableTftpAck_new(0)]
               /\ \A i \in 1..3 : ~IsData(sent[i])
       /\ req_options = << >>
            => /\ ~OAckSent
               /\ srv_pc = "serving"
                    => /\ Len(sent) = 2
                       /\ sent[2].dst = ClientAddr
                       /\ IsData(sent[2])
                       /\ pkt_blocknum(sent[2].bytes) = 1

\* C23 witness: blksize 8 was acknowledged, the client answered ACK 0 and
\* the server sent DATA 1 with the whole file.
C23_Witness ==
  /\ driver = "get"
  /\ OAckSent
  /\ srv_options.blocksize = 8
  /\ srv_pc = "serving"
  /\ sent[Len(sent)] = [dst |-> ClientAddr, bytes |-> data_packet(1, SrvFile)]

\* C30: a server that cannot open the requested file because it does not
\* exist or may not be accessed sends the client one ERROR packet, with
\* code 1 or 2, and nothing else: no OACK and no DATA.
C30_FileOpenFailure ==
  srv_pc \in {"not_found", "no_access"}
    => /\ \A i \in 2..Len(sent) : sent[i].dst = ClientAddr => i = 2
       /\ Len(sent) >= 2
       /\ sent[2].dst = ClientAddr
       /\ Opcode(sent[2].bytes) = OPCODE_ERROR
       /\ pkt_blocknum(sent[2].bytes) =
            (IF srv_pc = "not_found" THEN ERR_FILENOTFOUND
             ELSE ERR_ACCESSVIOLATION)
       /\ tx_count = 1 \/ sent[Len(sent)].dst # ClientAddr

\* C30 witness: the file of a read request with options does not exist;
\* the client has been told and has given up.
C30_Witness ==
  /\ srv_pc = "not_found"
  /\ driver = "get"
  /\ req_options # << >>
  /\ pkt_blocknum(sent[2].bytes) = 1
  /\ pc = "closed"

\* C24 (as claimed): send_and_receive_ack goes back to send the
\* outstanding DATA packet again only when the receive timed out or
\* brought a datagram from another source than the peer; an unparseable
\* packet or a packet of another kind from the peer, and an I/O error of
\* the socket, end the transfer at once with that error.
C24_PropagationPolicy ==
  [][ (pc = "sar_recv" /\ pc' # pc)
        => /\ pc' = "sar_head"
                => \/ last_rx'.kind = "timeout"
                   \/ last_rx'.kind = "dgram" /\ last_rx'.src # peer
           /\ (\/ last_rx'.kind = "ioerr"
               \/ /\ last_rx'.kind = "dgram"
                  /\ last_rx'.src = peer
                  /\ receive_packet(ACK_BUF_LEN, "Ack", last_rx', peer).err
                       \in {"InvalidPacket", "UnexpectedPacketKind"})
                => /\ pc' = "closed"
                   /\ result' = receive_packet(ACK_BUF_LEN, "Ack", last_rx', peer).err
    ]_vars

\* C25 (as claimed): whenever a receive brings an ERROR packet from the
\* peer (from the server's host while the first reply is awaited), the
\* connection closes with the outcome PeerError: the sender does not go
\* back to send its block again, the receiver writes nothing and sends
\* nothing.
C25_PeerErrorCloses ==
  [][ (/\ pc \in {"get_wait", "put_wait", "sar_recv", "rf_recv"}
       /\ pc' # pc
       /\ last_rx'.kind = "dgram"
       /\ Opcode(last_rx'.bytes) = OPCODE_ERROR
       /\ IF pc \in {"get_wait", "put_wait"}
            THEN last_rx'.src.ip = ServerAddr.ip
            ELSE last_rx'.src = peer)
        => /\ pc' = "closed"
           /\ result' = "PeerError"
           /\ writes' = writes
           /\ ~TransmitStep ]_vars

\* C26: at the head of every attempt of send_and_receive_ack and of every
\* iteration of the loops of receive_file and send_file a set
\* cancellation token ends the transfer: in that step nothing is sent,
\* read from the file or written, and a closed transfer takes no further
\* step.
C26_CancellationChecks ==
  [][ /\ (cancelled /\ AtCancellationCheck)
           => /\ pc' = "closed"
              /\ ~TransmitStep
              /\ file_pos' = file_pos
              /\ file_buf' = file_buf
              /\ stream' = stream
              /\ writes' = writes
      /\ pc = "closed" => UNCHANGED vars ]_vars

\* C26 witness: the token was set while the ACK of a DATA packet was
\* awaited; after one timeout the second attempt found it set, and the
\* packet had been sent once.
C26_Witness ==
  /\ driver = "send_file"
  /\ cancelled
  /\ pc = "closed"
  /\ attempts = 1
  /\ last_rx = RxTimeout
  /\ Len(sent) = 1
  /\ tx_count = 1

\* C27: a DATA packet from the peer whose block number is neither the
\* next one nor the one acknowledged last leaves receive_file as it was:
\* nothing is written, the block counter stays, no packet is sent, and
\* the loop goes on to its next receive.
C27_OutOfSequenceData ==
  [][ (/\ pc = "rf_recv"
       /\ pc' # pc
       /\ last_rx'.kind = "dgram"
       /\ last_rx'.src = peer
       /\ receive_packet(4 + opt_blocksize, "Data", last_rx', peer).ok
       /\ pkt_blocknum(last_rx'.bytes) \notin {blocknum, U16(blocknum + 1)})
        => /\ pc' = "rf_loop"
           /\ stream' = stream
           /\ writes' = writes
           /\ blocknum' = blocknum
           /\ result' = result
           /\ ~TransmitStep ]_vars

\* C27 witness: block 1 has been written and acknowledged, DATA 3 came
\* from the peer, and the loop is back at its head with ACK 1 the last
\* packet sent.
C27_Witness ==
  /\ driver = "receive_file"
  /\ pc = "rf_loop"
  /\ blocknum = 1
  /\ writes = << 1 >>
  /\ last_rx.kind = "dgram"
  /\ last_rx.src = peer
  /\ Opcode(last_rx.bytes) = OPCODE_DATA
  /\ pkt_blocknum(last_rx.bytes) = 3
  /\ sent[Len(sent)].bytes = MutableTftpAck_new(1)

\* C28: a first reply DATA 1 handed to receive_file is written once,
\* before anything else, and acknowledged with ACK 1, whereupon the loop
\* expects block 2: the stream begins with the payload of the first
\* reply, block 1 is written no second time, and the first packet after
\* the request is ACK 1.
C28_InitialBlock ==
  (/\ driver = "get"
   /\ init_data # << >>
   /\ pkt_blocknum(init_data) = 1
   /\ pc \in {"rf_loop", "rf_recv", "done"} \/ (pc = "closed" /\ writes # << >>))
    => /\ writes[1] = 1
       /\ \A i \in 2..Len(writes) : writes[i] # 1
       /\ SubSeq(stream, 1, Len(pkt_data(init_data))) = pkt_data(init_data)
       /\ Len(writes) = 1 => /\ Len(stream) = Len(pkt_data(init_data))
                             /\ blocknum = 1
       /\ Len(writes) >= 2 => writes[2] = 2
       /\ sent[2] = [dst |-> peer, bytes |-> MutableTftpAck_new(1)]

\* C28 witness: the first reply was a full DATA 1 from the transfer
\* port, block 1 was written and acknowledged, and the same block, sent
\* again by the peer, was not written a second time.
C28_Witness ==
  /\ driver = "get"
  /\ init_data = data_packet(1, Fill(DEFAULT_BLOCK_SIZE, 120))
  /\ first_reply.src = PeerTid
  /\ pc = "rf_loop"
  /\ writes = << 1 >>
  /\ Len(stream) = DEFAULT_BLOCK_SIZE
  /\ last_rx.kind = "dgram"
  /\ last_rx.src = peer
  /\ Opcode(last_rx.bytes) = OPCODE_DATA
  /\ pkt_blocknum(last_rx.bytes) = 1

\* C29: a failed write in receive_file sends the peer one ERROR packet
\* of code 3 and ends the transfer, with nothing written and no ACK for
\* the block; and every ACK receive_file sends follows, in the same step,
\* the successful write of the block it counts.
C29_WriteFailure ==
  [][ (pc \in {"rf_start", "rf_recv"} /\ pc' # pc)
        => /\ result' = "StorageError"
                => /\ pc' = "closed"
                   /\ writes' = writes
                   /\ stream' = stream
                   /\ sent' = Append(sent, [dst |-> peer,
                                 bytes |-> TftpErrorBuilder_build(3, << >>)])
           /\ (TransmitStep /\ Opcode(sent'[Len(sent')].bytes) = OPCODE_ACK)
                => /\ Len(writes') = Len(writes) + 1
                   /\ pkt_blocknum(sent'[Len(sent')].bytes) = U16(Len(writes'))
                   /\ result' # "StorageError"
    ]_vars

\* C29 witness: block 1 was written and acknowledged, the write of block
\* 2 failed, and the ERROR packet followed ACK 1.
C29_Witness ==
  /\ driver = "receive_file"
  /\ result = "StorageError"
  /\ pc = "closed"
  /\ writes = << 1 >>
  /\ Len(sent) = 2
  /\ sent[1].bytes = MutableTftpAck_new(1)
  /\ Opcode(sent[2].bytes) = OPCODE_ERROR
  /\ pkt_blocknum(last_rx.bytes) = 2

\* C31: the option list built from the key/value pairs of a packet fails
\* exactly when blksize, timeout or tsize carries a value that is no
\* number of its type (u16, u8, u32); otherwise it holds one entry for
\* each of the three keys that is present and nothing else, the same
\* list as without the other keys.
C31_OptionParsing ==
  codec.stage = "options"
    => LET m     == oack_options(codec.buf).map
           max   == [k \in {OPT_BLOCKSIZE_IDENT, OPT_TIMEOUT_IDENT,
                            OPT_TRANSFERSIZE_IDENT} |->
                       IF k = OPT_BLOCKSIZE_IDENT THEN U16_MAX
                       ELSE IF k = OPT_TIMEOUT_IDENT THEN U8_MAX ELSE U32_MAX]
           kind  == [k \in DOMAIN max |->
                       IF k = OPT_BLOCKSIZE_IDENT THEN "Blocksize"
                       ELSE IF k = OPT_TIMEOUT_IDENT THEN "Timeout"
                       ELSE "TransferSize"]
           known == DOMAIN m \cap DOMAIN max
           opts  == codec.out.opts
       IN  /\ oack_options(codec.buf).ok
           /\ codec.out.kind = "none"
                <=> \E k \in known : ~from_str_radix(m[k], max[k]).ok
           /\ codec.out.kind # "none"
                => /\ { opts[i].kind : i \in 1..Len(opts) }
                        = { kind[k] : k \in known }
                   /\ Len(opts) = Cardinality(known)
                   /\ \A i \in 1..Len(opts) : \E k \in known :
                        /\ opts[i].kind = kind[k]
                        /\ opts[i].val = from_str_radix(m[k], max[k]).val
           /\ codec.out.kind = "none" => opts = << >>

\* C31 witness: "windowsize" without a number and "timeout" 8 were
\* parsed to the one option timeout 8.
C31_Witness ==
  /\ codec.stage = "options"
  /\ DOMAIN oack_options(codec.buf).map
       = {OPT_TIMEOUT_IDENT, << 119, 105, 110, 100, 111, 119, 115, 105, 122, 101 >>}
  /\ oack_options(codec.buf).map[<< 119, 105, 110, 100, 111, 119, 115, 105, 122, 101 >>]
       = << 120 >>
  /\ codec.out.kind = "OAck"
  /\ codec.out.opts = << [kind |-> "Timeout", val |-> 8] >>

\* C32 (as claimed): the case of an option key does not matter.  The
\* option list built from the pairs of a packet is the one built from the
\* same pairs with their keys in lower case, so "BLKSIZE" gives the
\* block size as "blksize" does.
C32_CaseInsensitiveKeys ==
  (/\ codec.stage = "options"
   /\ \A j, k \in DOMAIN oack_options(codec.buf).map :
        lower_key(j) = lower_key(k) => j = k)
    => LET res == parse_options(LoweredMap(oack_options(codec.buf).map))
       IN  /\ codec.out.kind = (IF res.ok THEN "OAck" ELSE "none")
           /\ codec.out.opts = res.opts

\* C33: once the cancellation token is set the acceptor leaves its loop
\* and server_task returns, whether or not a request has arrived.
C33_AcceptorShutdown == cancelled ~> acc.pc = "returned"

\* C33 witness: the token was set while two spawned tasks were still
\* waiting for their clients, and the acceptor has returned.
C33_Witness ==
  /\ cancelled
  /\ acc.pc = "returned"
  /\ Len(acc.tasks) = 2
  /\ \A i \in 1..2 : acc.tasks[i].pc = "recv"

C36_EndToEndIntegrity ==
  /\ Len(rem.stream) <= Len(file)
  /\ rem.stream = SubSeq(file, 1, Len(rem.stream))
  /\ rem.writes = [i \in 1..Len(rem.writes) |-> i]
  /\ pc = "done"
       => /\ rem.stream = file
          /\ Len(rem.writes) = Len(DataSent)
          /\ rem.pc = "done"

\* C36 witness: a file of two full blocks of two bytes was sent with a
\* DATA packet lost, an ACK lost and an earlier packet delivered again,
\* send_file has returned with success, and the remote end holds the
\* file.
C36_Witness ==
  /\ pc = "done"
  /\ opt_blocksize = 2
  /\ Len(file) = 4
  /\ rem.stream = file
  /\ rem.lost_data >= 1
  /\ rem.lost_acks >= 1
  /\ rem.stale = 1

\* C37 (as claimed): when one ACK of the remote end was lost, no DATA
\* packet was lost, no packet arrived twice, nothing was cancelled and
\* the remote end has not failed, send_file has not ended with its
\* retransmissions exhausted.
C37_LostAckRecovery ==
  ( /\ rem.lost_acks = 1
    /\ rem.lost_data = 0
    /\ rem.stale = 0
    /\ ~cancelled
    /\ rem.pc = "rf_recv" )
    => ~(pc = "closed" /\ result = "Timeout")

\* C38 (as claimed): a first reply from the server's host that is a DATA
\* packet with another block number than 1 (get) or an ACK with another
\* block number than 0 (put) does not start the transfer: after such a
\* DATA packet nothing is written and no ACK 1 is sent, after such an ACK
\* send_file is not entered and no DATA packet is sent.
C38_FirstReplyBlockCheck ==
  ( /\ driver \in {"get", "put"}
    /\ first_reply.kind = "dgram"
    /\ first_reply.src.ip = ServerAddr.ip
    /\ Len(first_reply.bytes) >= 4 )
    => /\ ( /\ driver = "get"
            /\ Opcode(first_reply.bytes) = OPCODE_DATA
            /\ pkt_blocknum(first_reply.bytes) # 1 )
         => /\ init_data = << >>
            /\ stream = << >>
            /\ writes = << >>
            /\ \A i \in 1..Len(sent) : sent[i].bytes # MutableTftpAck_new(1)
       /\ ( /\ driver = "put"
            /\ Opcode(first_reply.bytes) = OPCODE_ACK
            /\ pkt_blocknum(first_reply.bytes) # 0 )
         => /\ pc \notin {"sf_start", "sf_loop", "sar_head", "sar_recv", "done"}
            /\ DataSent = << >>

\* C39: every DATA packet send_file has handed to the socket carries at
\* most blocksize payload bytes, so that the datagram is at most
\* 4 + blocksize bytes long, and every DATA packet but the last one sent
\* carries exactly blocksize payload bytes; the same holds for the packet
\* send_file has built and is about to send.
C39_MaxDatagramSize ==
  driver \in {"send_file", "put"}
    => /\ \A i \in 1..Len(DataSent) :
            /\ pkt_data_len(DataSent[i].bytes) <= opt_blocksize
            /\ Len(DataSent[i].bytes) <= 4 + opt_blocksize
            /\ i < Len(DataSent)
                 => pkt_data_len(DataSent[i].bytes) = opt_blocksize
       /\ pc \in {"sar_head", "sar_recv"}
            => /\ Len(file_buf) <= 4 + opt_blocksize
               /\ ~final /\ blocknum < n_blocks
                    => pkt_data_len(file_buf) = opt_blocksize

\* C39 witness: a file of five bytes was sent with block size 2 in three
\* DATA packets of 2, 2 and 1 payload bytes, and send_file has returned.
C39_Witness ==
  /\ driver = "send_file"
  /\ pc = "done"
  /\ opt_blocksize = 2
  /\ Len(file) = 5
  /\ Len(DataSent) = 3
  /\ pkt_data_len(DataSent[1].bytes) = 2
  /\ pkt_data_len(DataSent[2].bytes) = 2
  /\ pkt_data_len(DataSent[3].bytes) = 1

====
